---- MODULE Spec2Model ----
(***************************************************************************)
(* Model of the MemoGarden Semantic API (/mg): the verb dispatcher         *)
(* (api/semantic.py), the audit decorator (api/handlers/decorators.py) and *)
(* the verb handlers (api/handlers/*.py) over the Fact store (Soil) and    *)
(* the Entity store (Core).                                                *)
(*                                                                         *)
(* A pool of worker threads serves requests.  One invocation is a chain of *)
(* store transactions: the Action write, the handler, the ActionResult     *)
(* write.  Each transaction is one atomic step; the steps of different     *)
(* workers interleave.                                                     *)
(***************************************************************************)
EXTENDS Integers, FiniteSets, Sequences, TLC

\* ---------------------------------------------------------------- bounds
NumWorkers == 2
MaxInv == 2
MaxFaults == 1

Workers == 1..NumWorkers

\* The threads that call the SSE manager side by side, and the calls they make.
NumThreads == 2

MaxCalls == 3

Threads == 1..NumThreads

\* ------------------------------------------------------------ identifiers
\* A wire identifier is a layer prefix and a raw uuid.  Raw uuid 0 is the
\* all-zero uuid 00000000-0000-0000-0000-000000000000, which no store holds.
NoPrefix == ""
NilUuid == 0

MkId(p, u) == [pfx |-> p, raw |-> u]

NoId == MkId(NoPrefix, NilUuid)

strip_prefix(id) == id.raw

add_soil_prefix(u) == MkId("soil_", u)

add_core_prefix(u) == MkId("core_", u)

\* ------------------------------------------------------------- type sets
BASELINE_ENTITY_TYPES ==
    {"Transaction", "Recurrence", "Artifact", "Label", "Operator", "Agent", "Entity"}

BASELINE_ITEM_TYPES ==
    {"Note", "Message", "Email", "ToolCall", "EntityDelta", "SystemEvent"}

\* ------------------------------------------------------------ exceptions
\* Exception classes that occur in the dispatcher and the handlers.
NoExc == "none"

ExcClasses ==
    {"PydanticValidationError", "MGValidationError", "ResourceNotFound",
     "LockConflictError", "PermissionDenied", "ConflictError",
     "ValueError", "RuntimeError"}

\* system.exceptions: the classes deriving from MemoGardenError.
IsMemoGardenError(e) ==
    e \in {"MGValidationError", "ResourceNotFound", "LockConflictError",
           "PermissionDenied", "ConflictError", "AuthenticationError"}

\* A slip: LockConflictError falls through to the default branch.
get_error_code_no_lock(e) ==
    IF e = "MGValidationError" THEN "validation_error"
    ELSE IF e = "ResourceNotFound" THEN "not_found"
    ELSE IF e = "PermissionDenied" THEN "permission_denied"
    ELSE "internal_error"

\* decorators._get_error_code
get_error_code(e) ==
    IF e = "MGValidationError" THEN "validation_error"
    ELSE IF e = "ResourceNotFound" THEN "not_found"
    ELSE IF e = "LockConflictError" THEN "lock_conflict"
    ELSE IF e = "PermissionDenied" THEN "permission_denied"
    ELSE "internal_error"

\* semantic_api, lines 245-332: the except clauses, in order.
StatusCode(e) ==
    IF e = "PydanticValidationError" THEN 400
    ELSE IF IsMemoGardenError(e)
         THEN IF e = "ResourceNotFound" THEN 404
              ELSE IF e = "MGValidationError" THEN 400
              ELSE IF e = "AuthenticationError" THEN 401
              ELSE 500
    ELSE IF e = "ValueError" THEN 400
    ELSE 500

\* ---------------------------------------------------------------- requests
MissingOp == "<missing>"
MissingField == "<missing>"

\* A JSON object with no keys.
NoData == [k \in {} |-> 0]

\* LinkRequest.initial_horizon_days, its default
DefaultHorizonDays == 7

\* SearchRequest.limit, its default
DefaultLimit == 20

\* ExploreRequest.radius and TrackRequest.depth, when absent (None); a
\* given value is at least 1
NoRadius == 0

NoDepth == 0

\* required: the verb's other required fields are present and in range.
\* unset tells whether the unset list is absent ("none"), empty ("empty") or
\* holds the names in unset_fields ("fields"). context_size is the size a
\* direct call of update_containers is given. kind, source and
\* initial_horizon_days are LinkRequest's, with its defaults.
Req(op, bypass, type, target, hash, ops, unset) ==
    [op |-> op, bypass |-> bypass, type |-> type, target |-> target,
     based_on_hash |-> hash, ops |-> ops, unset |-> unset,
     target_type |-> "entity", required |-> TRUE,
     data |-> NoData, set |-> NoData, unset_fields |-> {},
     actor |-> "usr_a", scope |-> NoId, context_size |-> 0,
     kind |-> "explicit_link", source |-> NoId,
     initial_horizon_days |-> DefaultHorizonDays, limit |-> DefaultLimit,
     anchor |-> NoId, direction |-> "both", radius |-> NoRadius,
     depth |-> NoDepth]

NoHandler == "None"

\* semantic.HANDLERS
HANDLERS ==
    [create |-> "handle_create", edit |-> "handle_edit",
     forget |-> "handle_forget", track |-> "handle_track",
     search |-> "handle_search", link |-> "handle_link",
     unlink |-> "handle_unlink", edit_relation |-> "handle_edit_relation",
     get_relation |-> "handle_get_relation",
     query_relation |-> "handle_query_relation", explore |-> "handle_explore",
     add |-> "handle_add", amend |-> "handle_amend",
     enter |-> "handle_enter", leave |-> "handle_leave", focus |-> "handle_focus",
     commit_artifact |-> "handle_commit_artifact",
     get_artifact_at_commit |-> "handle_get_artifact_at_commit",
     diff_commits |-> "handle_diff_commits", fold |-> "handle_fold",
     get_conversation |-> "handle_get_conversation"]

\* semantic._get_handler
get_handler(r) ==
    IF r.op = "get"
    THEN IF r.target.pfx = "soil_" THEN "handle_get_fact" ELSE "handle_get"
    ELSE IF r.op = "query"
    THEN IF r.target_type = "fact" THEN "handle_query_facts" ELSE "handle_query"
    ELSE IF r.op \in DOMAIN HANDLERS THEN HANDLERS[r.op] ELSE NoHandler

\* semantic._validate_request: the schema class chosen for each op.
request_schemas ==
    [create |-> "CreateRequest", get |-> "GetRequest", edit |-> "EditRequest",
     forget |-> "ForgetRequest", query |-> "QueryRequest", add |-> "AddRequest",
     amend |-> "AmendRequest", link |-> "LinkRequest", unlink |-> "UnlinkRequest",
     edit_relation |-> "EditRequest", get_relation |-> "GetRequest",
     query_relation |-> "QueryRelationRequest", explore |-> "ExploreRequest",
     track |-> "TrackRequest", search |-> "SearchRequest",
     enter |-> "EnterRequest", leave |-> "LeaveRequest", focus |-> "FocusRequest",
     commit_artifact |-> "CommitArtifactRequest",
     get_artifact_at_commit |-> "GetArtifactAtCommitRequest",
     diff_commits |-> "DiffCommitsRequest", fold |-> "FoldRequest",
     get_conversation |-> "GetRequest"]

\* schemas/semantic.py: the Literal each schema class declares for op.
OpLiteral ==
    [CreateRequest |-> {"create"}, GetRequest |-> {"get", "get_relation"},
     EditRequest |-> {"edit", "edit_relation"}, ForgetRequest |-> {"forget"},
     QueryRequest |-> {"query", "query_relation"}, AddRequest |-> {"add"},
     AmendRequest |-> {"amend"}, LinkRequest |-> {"link"},
     UnlinkRequest |-> {"unlink"}, QueryRelationRequest |-> {"query_relation"},
     ExploreRequest |-> {"explore"}, TrackRequest |-> {"track"},
     SearchRequest |-> {"search"}, EnterRequest |-> {"enter"},
     LeaveRequest |-> {"leave"}, FocusRequest |-> {"focus"},
     CommitArtifactRequest |-> {"commit_artifact"},
     GetArtifactAtCommitRequest |-> {"get_artifact_at_commit"},
     DiffCommitsRequest |-> {"diff_commits"}, FoldRequest |-> {"fold"}]

\* semantic._validate_request: schema(**request_json).  The op must be one
\* the schema's Literal admits and the required fields must be there;
\* create/add need type; ops has min_length 1; unset must not be empty.
validate_request(r) ==
    /\ r.op \in DOMAIN request_schemas
    /\ r.op \in OpLiteral[request_schemas[r.op]]
    /\ r.required
    /\ r.op \in {"create", "add"} => r.type # MissingField
    /\ r.op = "edit" => r.unset # "empty"
    /\ r.op = "commit_artifact" => r.ops # ""

\* semantic_api, lines 199-231: what rejects the request before dispatch.
EnvelopeError(r) ==
    IF r.op = MissingOp THEN "missing_op"
    ELSE IF get_handler(r) = NoHandler THEN "unsupported_operation"
    ELSE IF ~validate_request(r) THEN "PydanticValidationError"
    ELSE NoExc

\* ------------------------------------------------------------------ stores
VARIABLES
    facts,      \* Soil: the item table
    relations,  \* Soil: the system_relation table
    entities,   \* Core: the entity table
    nextUuid,   \* the next uuid the generators hand out (never reused)
    pc,         \* per worker: idle | running | returned | raised
    cur,        \* per worker: the invocation in progress
    done,       \* the answered invocations, with what each one wrote
    nextInv,    \* number of the next invocation
    faults,     \* how many audit writes the store has failed
    probe,      \* a request put to the dispatcher and how far it got
    frames,     \* Core: the context_frame table
    user_relation,  \* Core: the user_relation table
    today,      \* utils.time.current_day()
    sse_manager,    \* events.sse_manager: its connections and its counter
    streams,    \* per SSE client: where its generate() stands
    handles,    \* per worker: the store handles it holds, innermost last
    lock,       \* SSEManager._lock: the thread that holds it, 0 when free
    threads,    \* per thread calling the SSE manager: where its call stands
    history     \* the calls of the SSE manager that returned, in order

\* The variables that only a handler or a direct store call changes.
others == <<probe, frames, user_relation, sse_manager>>

\* The variables no handler changes.
\* The variables that only a step of an open store handle changes.
rest == <<handles, lock, threads, history>>

apart == <<today, streams, rest>>

vars == <<facts, relations, entities, nextUuid, pc, cur, done, nextInv, faults,
          probe, frames, user_relation, today, sse_manager, streams, handles,
          lock, threads, history>>

NewFact(u, t) ==
    [uuid |-> u, type |-> t, status |-> "none", code |-> "none",
     req |-> NilUuid, superseded_by |-> NilUuid]

NewRelation(u, k, s, t) == [uuid |-> u, kind |-> k, source |-> s, target |-> t]

\* No previous version.
NoHash == -1

NewEntity(u, t) ==
    [uuid |-> u, type |-> t, version |-> 1, hash |-> 0, superseded_by |-> NilUuid,
     data |-> NoData, previous_hash |-> NoHash, derived_from |-> NilUuid]

Store == [facts |-> facts, relations |-> relations, entities |-> entities,
          next |-> nextUuid, frames |-> frames, user_relation |-> user_relation,
          today |-> today, sse |-> sse_manager]

\* Soil.get_item / Core.entity.get_by_id: lookup by uuid, prefix accepted.
get_item(S, id) == {f \in S.facts : f.uuid = strip_prefix(id)}

get_by_id(S, id) == {e \in S.entities : e.uuid = strip_prefix(id)}

Write(k, u) == [kind |-> k, uuid |-> u]

Range(q) == {q[i] : i \in DOMAIN q}

Min(a, b) == IF a < b THEN a ELSE b

\* A handler's outcome: the store it leaves, the exception it raised (or
\* none), the exception the store raised to it, the identifier in its
\* result, and what it wrote.
Raise(S, e) ==
    [S |-> S, exc |-> e, cause |-> e, result |-> NoId, writes |-> {}, rows |-> {},
     results |-> <<>>]

Return(S, res, ws) ==
    [S |-> S, exc |-> NoExc, cause |-> NoExc, result |-> res, writes |-> ws,
     rows |-> {}, results |-> <<>>]

\* A handler returns a page of results.
ReturnRows(S, rows) == [Return(S, NoId, {}) EXCEPT !.rows = rows]

\* --------------------------------------------------------------- event bus
EVENT_TYPES ==
    {"artifact_delta", "message_sent", "context_updated", "frame_updated",
     "scope_created", "scope_modified", "relation_created", "relation_modified"}

\* SSEConnection.queue is Queue.Queue(): maxsize 0, which is no bound.
QUEUE_MAXSIZE == 0

\* SSEConnection, lines 50-64
NewConnection(client_id, user_id, scopes) ==
    [client_id |-> client_id, user_id |-> user_id, subscribed_scopes |-> scopes,
     queue |-> <<>>]

\* A subscription with no scopes takes every event.
is_subscribed_to_when_empty(conn, scope_uuid) ==
    \/ scope_uuid = NoId
    \/ conn.subscribed_scopes = {}
    \/ scope_uuid \in conn.subscribed_scopes

\* SSEConnection.is_subscribed_to; NoId stands for None.
is_subscribed_to(conn, scope_uuid) ==
    scope_uuid = NoId \/ scope_uuid \in conn.subscribed_scopes

\* The connection of client id in manager M.
ConnOf(M, id) == {c \in M.connections : c.client_id = id}

\* SSEManager.register
register(M, user_id, scopes) ==
    LET client_id == M.client_id_counter + 1
    IN  [M EXCEPT !.client_id_counter = client_id,
                  !.connections = @ \cup {NewConnection(client_id, user_id, scopes)}]

\* The connection stays in the registry.
unregister_kept(M, client_id) == M

\* SSEManager.unregister
unregister(M, client_id) ==
    [M EXCEPT !.connections = {c \in @ : c.client_id # client_id}]

\* Queue.put(block=False): queue.Full when maxsize is positive and reached.
Full(q) == QUEUE_MAXSIZE > 0 /\ Len(q) >= QUEUE_MAXSIZE

\* What publish has done so far: the manager, the count, the exception.
Published(M, count, exc) == [M |-> M, count |-> count, exc |-> exc]

\* SSEManager.publish, lines 169-182: the loop over the connections, in
\* the order they registered. On a full queue the except clause names
\* queue.Full, and queue is not a name of the module (it is imported as
\* Queue): NameError leaves the loop.
RECURSIVE publish_from(_, _, _, _, _)
publish_from(M, ids, event, scope_uuid, count) ==
    IF ids = {} THEN Published(M, count, NoExc)
    ELSE LET id   == CHOOSE i \in ids : \A j \in ids : i <= j
             conn == CHOOSE c \in M.connections : c.client_id = id
         IN  IF ~is_subscribed_to(conn, scope_uuid)
             THEN publish_from(M, ids \ {id}, event, scope_uuid, count)
             ELSE IF Full(conn.queue)
             THEN Published(M, count, "NameError")
             ELSE publish_from(
                    [M EXCEPT !.connections = (@ \ {conn}) \cup
                        {[conn EXCEPT !.queue = Append(@, event)]}],
                    ids \ {id}, event, scope_uuid, count + 1)

\* SSEManager.publish
publish(M, event_type, data, scope_uuid) ==
    IF event_type \notin EVENT_TYPES THEN Published(M, 0, "ValueError")
    ELSE publish_from(M, {c.client_id : c \in M.connections},
                      [type |-> event_type, data |-> data], scope_uuid, 0)

\* publish_artifact_delta, lines 401-431
publish_artifact_delta(M, artifact_uuid, commit_hash, scope_uuid) ==
    publish(M, "artifact_delta",
            [artifact_uuid |-> artifact_uuid, commit_hash |-> commit_hash],
            scope_uuid)

\* ---------------------------------------------------------------- handlers
\* The type check runs after the entity was created and committed.
handle_create_late_check(S, r) ==
    LET u == S.next
        S2 == [S EXCEPT !.entities = @ \cup {NewEntity(u, r.type)}, !.next = @ + 1]
    IN  IF r.type \notin BASELINE_ENTITY_TYPES
        THEN [Raise(S2, "ValueError") EXCEPT !.writes = {Write("entity", u)}]
        ELSE Return(S2, add_core_prefix(u), {Write("entity", u)})

\* core.handle_create
handle_create(S, r) ==
    IF r.type \notin BASELINE_ENTITY_TYPES
    THEN Raise(S, "ValueError")
    ELSE LET u == S.next
         IN  Return([S EXCEPT !.entities =
                                @ \cup {[NewEntity(u, r.type) EXCEPT !.data = r.data]},
                              !.next = @ + 1],
                    add_core_prefix(u), {Write("entity", u)})

\* core.handle_get
handle_get(S, r) ==
    LET row == get_by_id(S, r.target)
    IN  IF row = {} THEN Raise(S, "ResourceNotFound")
        ELSE Return(S, add_core_prefix((CHOOSE e \in row : TRUE).uuid), {})

\* core.handle_edit; inj is what Core.entity.update_data raises (none when
\* it succeeds), and the scoped acquisition then rolls the edit back.
\* dict.update(set)
update(data, set) ==
    [k \in DOMAIN data \cup DOMAIN set |-> IF k \in DOMAIN set THEN set[k] ELSE data[k]]

\* dict.pop(field, None) for each field
pop(data, fields) == [k \in DOMAIN data \ fields |-> data[k]]

\* Core.entity.update_data: the next version of the entity, holding
\* new_data, chained to the version it replaces.
update_data(S, e, new_data) ==
    [S EXCEPT !.entities =
        (@ \ {e}) \cup {[e EXCEPT !.data = new_data,
                                  !.version = @ + 1,
                                  !.previous_hash = e.hash,
                                  !.hash = @ + 1]}]

\* The unset fields are popped before the set fields are written.
handle_edit_unset_first(S, r, inj) ==
    LET row == get_by_id(S, MkId(NoPrefix, strip_prefix(r.target)))
    IN  IF row = {} THEN Raise(S, "ResourceNotFound")
        ELSE IF inj # NoExc THEN Raise(S, inj)
        ELSE LET e == CHOOSE x \in row : TRUE
                 current_data == update(pop(e.data, r.unset_fields), r.set)
             IN  Return(update_data(S, e, current_data),
                        add_core_prefix(e.uuid), {Write("update", e.uuid)})

handle_edit(S, r, inj) ==
    LET row == get_by_id(S, MkId(NoPrefix, strip_prefix(r.target)))
    IN  IF row = {} THEN Raise(S, "ResourceNotFound")
        ELSE IF inj # NoExc THEN Raise(S, inj)
        ELSE LET e == CHOOSE x \in row : TRUE
                 current_data == pop(update(e.data, r.set), r.unset_fields)
             IN  Return(update_data(S, e, current_data),
                        add_core_prefix(e.uuid), {Write("update", e.uuid)})

\* Core.entity.supersede: sets superseded_by (and superseded_at) on the
\* original.
supersede(S, e, by) ==
    [S EXCEPT !.entities = (@ \ {e}) \cup {[e EXCEPT !.superseded_by = by]}]

\* The original is marked superseded and no Tombstone is created.
handle_forget_no_tombstone(S, r) ==
    LET row == get_by_id(S, MkId(NoPrefix, strip_prefix(r.target)))
    IN  IF row = {} THEN Raise(S, "ResourceNotFound")
        ELSE LET e == CHOOSE x \in row : TRUE
             IN  Return(supersede(S, e, e.uuid),
                        add_core_prefix(e.uuid), {Write("supersede", e.uuid)})

\* core.handle_forget
handle_forget(S, r) ==
    LET row == get_by_id(S, MkId(NoPrefix, strip_prefix(r.target)))
    IN  IF row = {} THEN Raise(S, "ResourceNotFound")
        ELSE LET e == CHOOSE x \in row : TRUE
                 tombstone_id == S.next
                 S1 == [S EXCEPT !.entities = @ \cup {NewEntity(tombstone_id, "Tombstone")},
                                 !.next = @ + 1]
             IN  Return(supersede(S1, e, tombstone_id),
                        add_core_prefix(e.uuid),
                        {Write("entity", tombstone_id), Write("supersede", e.uuid)})

\* Core.entity.query_with_filters: equality on type, superseded rows left
\* out unless asked for.
query_with_filters(S, entity_type, include_superseded) ==
    {e \in S.entities : /\ entity_type \in {"", e.type}
                        /\ include_superseded \/ e.superseded_by = NilUuid}

\* core.handle_query
handle_query(S, r) ==
    ReturnRows(S, {add_core_prefix(e.uuid) : e \in query_with_filters(S, r.type, FALSE)})

\* soil.handle_add
handle_add(S, r) ==
    IF r.type \notin BASELINE_ITEM_TYPES
    THEN Raise(S, "ValueError")
    ELSE LET u == S.next
         IN  Return([S EXCEPT !.facts = @ \cup {NewFact(u, r.type)}, !.next = @ + 1],
                    add_soil_prefix(u), {Write("fact", u)})

\* soil.handle_get_fact
handle_get_fact(S, r) ==
    LET item == get_item(S, r.target)
    IN  IF item = {} THEN Raise(S, "ResourceNotFound")
        ELSE Return(S, add_soil_prefix((CHOOSE f \in item : TRUE).uuid), {})

\* soil.handle_query_facts: the facts not superseded, of the type asked for
\* when one is given.
handle_query_facts(S, r) ==
    ReturnRows(S, {add_soil_prefix(f.uuid) :
                    f \in {g \in S.facts : /\ g.superseded_by = NilUuid
                                            /\ r.type \in {"", g.type}}})

\* The rows of a table in the order they were stored.
RECURSIVE Stored(_)
Stored(rows) ==
    IF rows = {} THEN <<>>
    ELSE LET first == CHOOSE x \in rows : \A y \in rows : x.uuid <= y.uuid
         IN  <<first>> \o Stored(rows \ {first})

\* Core.entity.search / Soil.search_items: a substring scan of the rows that
\* stops at limit matches; the query tried matches every row.
search(rows, limit) == SubSeq(Stored(rows), 1, Min(limit, Cardinality(rows)))

\* core.handle_search: each store asked for is searched with the request's
\* limit, and the two pages are joined, entities first.
handle_search(S, r) ==
    LET found_entities == search(S.entities, r.limit)
        found_facts == search(S.facts, r.limit)
        entity_results ==
            IF r.target_type \in {"entity", "all"}
            THEN [i \in DOMAIN found_entities |-> add_core_prefix(found_entities[i].uuid)]
            ELSE <<>>
        fact_results ==
            IF r.target_type \in {"fact", "all"}
            THEN [i \in DOMAIN found_facts |-> add_soil_prefix(found_facts[i].uuid)]
            ELSE <<>>
        results == entity_results \o fact_results
    IN  [ReturnRows(S, Range(results)) EXCEPT !.results = results]

\* Soil.mark_superseded: sets superseded_by on the stored fact; refuses when
\* the fact is already superseded by a different fact.
mark_superseded(S, original_uuid, superseded_by_uuid) ==
    LET stored == get_item(S, original_uuid)
        o == CHOOSE f \in stored : TRUE
    IN  IF stored = {} \/ o.superseded_by \notin {NilUuid, superseded_by_uuid}
        THEN [ok |-> FALSE, S |-> S]
        ELSE [ok |-> TRUE,
              S |-> [S EXCEPT !.facts =
                        (@ \ {o}) \cup {[o EXCEPT !.superseded_by = superseded_by_uuid]}]]

\* handle_amend, lines 186-189: the original as the handler reads it.
amend_read(S, r) == get_item(S, MkId(NoPrefix, strip_prefix(r.target)))

\* The supersedes relation is written from the original to the amended fact.
amend_write_reversed(S, r, original) ==
    IF original = {} THEN Raise(S, "ResourceNotFound")
    ELSE LET o == CHOOSE f \in original : TRUE
         IN  IF o.superseded_by # NilUuid THEN Raise(S, "MGValidationError")
             ELSE LET amended_uuid == S.next
                      S1 == [S EXCEPT !.facts = @ \cup {NewFact(amended_uuid, o.type)},
                                      !.next = @ + 2]
                      m == mark_superseded(S1, r.target, amended_uuid)
                      relation == NewRelation(S.next + 1, "supersedes", r.target,
                                              MkId(NoPrefix, amended_uuid))
                  IN  IF ~m.ok THEN Raise(S, "MGValidationError")
                      ELSE Return([m.S EXCEPT !.relations = @ \cup {relation}],
                                  add_soil_prefix(amended_uuid),
                                  {Write("fact", amended_uuid),
                                   Write("supersede", o.uuid),
                                   Write("relation", S.next + 1)})

\* The amended fact takes the place of the original in the store.
amend_write_replacing(S, r, original) ==
    IF original = {} THEN Raise(S, "ResourceNotFound")
    ELSE LET o == CHOOSE f \in original : TRUE
             amended_uuid == S.next
         IN  Return([S EXCEPT !.facts = (@ \ {o}) \cup {NewFact(amended_uuid, o.type)},
                              !.next = @ + 1],
                    add_soil_prefix(amended_uuid),
                    {Write("fact", amended_uuid), Write("supersede", o.uuid)})

\* handle_amend, lines 190-265, given the original it read: the checks, the
\* amended fact, mark_superseded and the supersedes relation.
amend_write(S, r, original) ==
    IF original = {} THEN Raise(S, "ResourceNotFound")
    ELSE LET o == CHOOSE f \in original : TRUE
         IN  IF o.superseded_by # NilUuid THEN Raise(S, "MGValidationError")
             ELSE LET amended_uuid == S.next
                      S1 == [S EXCEPT !.facts = @ \cup {NewFact(amended_uuid, o.type)},
                                      !.next = @ + 2]
                      m == mark_superseded(S1, r.target, amended_uuid)
                      relation == NewRelation(S.next + 1, "supersedes",
                                      MkId(NoPrefix, amended_uuid), r.target)
                  IN  IF ~m.ok THEN Raise(S, "MGValidationError")
                      ELSE Return([m.S EXCEPT !.relations = @ \cup {relation}],
                                  add_soil_prefix(amended_uuid),
                                  {Write("fact", amended_uuid),
                                   Write("supersede", o.uuid),
                                   Write("relation", S.next + 1)})

handle_amend(S, r) == amend_write(S, r, amend_read(S, r))

\* Core.artifact.commit_delta: hash check, then parse, then the new entity
\* version and the ArtifactDelta fact.
commit_delta(S, r) ==
    LET row == {e \in get_by_id(S, r.target) : e.type = "Artifact"}
    IN  IF row = {} THEN Raise(S, "ResourceNotFound")
        ELSE LET a == CHOOSE e \in row : TRUE
             IN  IF a.hash # r.based_on_hash THEN Raise(S, "ConflictError")
                 ELSE IF r.ops = "bad" THEN Raise(S, "ValueError")
                 ELSE LET a2 == [a EXCEPT !.hash = @ + 1, !.version = @ + 1,
                                           !.previous_hash = a.hash]
                          delta == S.next
                      IN  Return([S EXCEPT
                                    !.entities = (@ \ {a}) \cup {a2},
                                    !.facts = @ \cup {NewFact(delta, "ArtifactDelta")},
                                    !.next = @ + 1],
                                 add_soil_prefix(delta),
                                 {Write("update", a.uuid), Write("fact", delta)})

\* artifact.handle_commit_artifact, lines 85-114: commit_delta, then the
\* artifact_delta event for the artifact's scope; ConflictError leaves as
\* ValueError, any other exception as it is. inj is what the event bus
\* raises, if it does. The subscriptions are no part of the transaction
\* that is rolled back.
handle_commit_artifact(S, r, inj) ==
    LET out == commit_delta(S, r)
    IN  IF out.exc = "ConflictError"
        THEN [Raise(S, "ValueError") EXCEPT !.cause = "ConflictError"]
        ELSE IF out.exc # NoExc THEN out
        ELSE IF inj # NoExc THEN Raise(S, inj)
        ELSE LET a   == CHOOSE e \in get_by_id(out.S, r.target) : TRUE
                 pub == publish_artifact_delta(
                            out.S.sse, r.target, a.hash,
                            IF "scope_uuid" \in DOMAIN a.data
                            THEN a.data["scope_uuid"] ELSE NoId)
             IN  IF pub.exc # NoExc
                 THEN Raise([S EXCEPT !.sse = pub.M], pub.exc)
                 ELSE [out EXCEPT !.S.sse = pub.M]

\* ------------------------------------------------------------ user relations
USER_RELATION_KINDS == {"explicit_link"}

\* SAFETY_COEFFICIENT, 1.2, as a ratio of integers.
SAFETY_COEFFICIENT == [num |-> 12, den |-> 10]

\* Core.relation.create's row: days are counted from the epoch. expired
\* is no column of the table: it remembers that expire was called.
NewUserRelation(u, kind, source, target, day, initial_horizon_days) ==
    [uuid |-> u, kind |-> kind, source |-> strip_prefix(source),
     target |-> strip_prefix(target), time_horizon |-> day + initial_horizon_days,
     last_access_at |-> day, created_at |-> day, expired |-> FALSE]

\* Core.relation.get_by_id
relation_get_by_id(S, id) == {x \in S.user_relation : x.uuid = strip_prefix(id)}

PutRelation(S, x, x2) == [S EXCEPT !.user_relation = (@ \ {x}) \cup {x2}]

\* Core.relation.create
relation_create(S, kind, source, target, initial_horizon_days) ==
    IF kind \notin USER_RELATION_KINDS THEN Raise(S, "ValueError")
    ELSE LET u == S.next
         IN  Return([S EXCEPT !.user_relation = @ \cup
                        {NewUserRelation(u, kind, source, target, S.today,
                                         initial_horizon_days)},
                              !.next = @ + 1],
                    MkId("core_", u), {Write("user_relation", u)})

\* Core.relation.edit: the attributes given (those that are not None)
\* replace the row's.
relation_edit(S, id, given) ==
    LET found == relation_get_by_id(S, id)
    IN  IF found = {} THEN Raise(S, "ResourceNotFound")
        ELSE LET x == CHOOSE y \in found : TRUE
                 x2 == IF "time_horizon" \notin DOMAIN given THEN x
                       ELSE [x EXCEPT !.time_horizon = given["time_horizon"]]
             IN  Return(PutRelation(S, x, x2), MkId("core_", x.uuid),
                        {Write("user_relation", x.uuid)})

\* int(delta * SAFETY_COEFFICIENT): the product, truncated toward zero.
int_times(delta, c) ==
    IF delta >= 0 THEN (delta * c.num) \div c.den
    ELSE 0 - (((0 - delta) * c.num) \div c.den)

\* update_time_horizon that does not record the day of the access.
update_time_horizon_keeping_access(S, id) ==
    LET found == relation_get_by_id(S, id)
    IN  IF found = {} THEN Raise(S, "ResourceNotFound")
        ELSE LET x == CHOOSE y \in found : TRUE
                 delta == S.today - x.last_access_at
                 x2 == [x EXCEPT !.time_horizon =
                                    @ + int_times(delta, SAFETY_COEFFICIENT)]
             IN  Return(PutRelation(S, x, x2), MkId("core_", x.uuid),
                        {Write("user_relation", x.uuid)})

\* Core.relation.update_time_horizon: the horizon grows by the days since
\* the last access times SAFETY_COEFFICIENT, and the access is recorded.
update_time_horizon(S, id) ==
    LET found == relation_get_by_id(S, id)
    IN  IF found = {} THEN Raise(S, "ResourceNotFound")
        ELSE LET x == CHOOSE y \in found : TRUE
                 delta == S.today - x.last_access_at
                 x2 == [x EXCEPT !.time_horizon =
                                    @ + int_times(delta, SAFETY_COEFFICIENT),
                                 !.last_access_at = S.today]
             IN  Return(PutRelation(S, x, x2), MkId("core_", x.uuid),
                        {Write("user_relation", x.uuid)})

\* Core.relation.expire: the horizon is set to yesterday.
expire(S, id) ==
    LET found == relation_get_by_id(S, id)
    IN  IF found = {} THEN Raise(S, "ResourceNotFound")
        ELSE LET x == CHOOSE y \in found : TRUE
                 x2 == [x EXCEPT !.time_horizon = S.today - 1, !.expired = TRUE]
             IN  Return(PutRelation(S, x, x2), MkId("core_", x.uuid),
                        {Write("user_relation", x.uuid)})

\* Core.relation.is_alive
is_alive(S, x) == x.time_horizon >= S.today

\* Core.relation.list_inbound
list_inbound(S, target, alive_only) ==
    {x \in S.user_relation :
        /\ x.target = strip_prefix(target)
        /\ alive_only => is_alive(S, x)}

\* handle_link, core.py lines 270-315
handle_link(S, r) ==
    relation_create(S, r.kind, r.source, r.target, r.initial_horizon_days)

\* handle_edit_relation, core.py lines 357-398
handle_edit_relation(S, r) ==
    relation_edit(S, r.target,
                  [k \in DOMAIN r.set \cap {"time_horizon", "metadata", "evidence"}
                        |-> r.set[k]])

\* ------------------------------------------------------------ context frames
\* Scope ids are kept as the store keeps them, with whatever prefix they
\* were given.
NewFrame(u, owner, owner_type) ==
    [uuid |-> u, owner |-> owner, owner_type |-> owner_type, containers |-> <<>>,
     active_scopes |-> <<>>, primary_scope |-> NoId]

Without(q, x) == SelectSeq(q, LAMBDA y : y # x)

\* A store call's outcome: the store it leaves, the frame it returns, and
\* the exception it raised.
Got(S, f, e) == [S |-> S, frame |-> f, exc |-> e]

PutFrame(S, f, f2) == [S EXCEPT !.frames = (@ \ {f}) \cup {f2}]

\* Core.context.get_context_frame: the owner's frame, created when there is
\* none and create_if_missing is set.
get_context_frame(S, owner, owner_type, create_if_missing) ==
    LET existing == {f \in S.frames : f.owner = owner /\ f.owner_type = owner_type}
        created == NewFrame(S.next, owner, owner_type)
    IN  IF existing # {} THEN Got(S, CHOOSE f \in existing : TRUE, NoExc)
        ELSE IF create_if_missing
        THEN Got([S EXCEPT !.frames = @ \cup {created}, !.next = @ + 1], created, NoExc)
        ELSE Got(S, NewFrame(NilUuid, owner, owner_type), "ResourceNotFound")

\* Core.context.enter_scope
enter_scope(S, f, scope) ==
    IF f.owner_type # "operator" \/ scope \in Range(f.active_scopes)
    THEN Got(S, f, "MGValidationError")
    ELSE LET f2 == [f EXCEPT !.active_scopes = Append(@, scope),
                             !.primary_scope = IF @ = NoId THEN scope ELSE @]
         IN  Got(PutFrame(S, f, f2), f2, NoExc)

\* Core.context.leave_scope
leave_scope(S, f, scope) ==
    IF f.owner_type # "operator" \/ scope \notin Range(f.active_scopes)
    THEN Got(S, f, "MGValidationError")
    ELSE LET f2 == [f EXCEPT !.active_scopes = Without(@, scope),
                             !.primary_scope = IF @ = scope THEN NoId ELSE @]
         IN  Got(PutFrame(S, f, f2), f2, NoExc)

\* Core.context.focus_scope
focus_scope(S, f, scope) ==
    IF f.owner_type # "operator" \/ scope \notin Range(f.active_scopes)
    THEN Got(S, f, "MGValidationError")
    ELSE LET f2 == [f EXCEPT !.primary_scope = scope]
         IN  Got(PutFrame(S, f, f2), f2, NoExc)

\* The range of context_size. The values of system.core.context are not in
\* the sources at hand; the range is kept small.
CONTEXT_SIZE_MIN == 2

CONTEXT_SIZE_MAX == 3

\* Core.context.update_containers: a container already in the list is taken
\* out and put back at index 0; another is put at index 0 and the tail
\* beyond context_size is dropped.
update_containers(S, f, visited, context_size) ==
    IF context_size < CONTEXT_SIZE_MIN \/ context_size > CONTEXT_SIZE_MAX
    THEN Got(S, f, "ValidationError")
    ELSE LET q  == <<visited>> \o f.containers
             f2 == [f EXCEPT !.containers =
                        IF visited \in Range(f.containers)
                        THEN <<visited>> \o Without(f.containers, visited)
                        ELSE SubSeq(q, 1, Min(Len(q), context_size))]
         IN  Got(PutFrame(S, f, f2), f2, NoExc)

\* What a scope handler makes of got, the outcome of its last store call,
\* in the transaction that began with store S.
ScopeResult(S, got, scope_uuid, ws) ==
    IF got.exc # NoExc THEN Raise(S, got.exc)
    ELSE [Return(got.S, add_core_prefix(scope_uuid.raw), ws)
            EXCEPT !.rows = Range(got.frame.active_scopes)]

\* The scope is passed on as the request gave it.
handle_enter_keep_prefix(S, r, actor) ==
    LET got == get_context_frame(S, actor, "operator", TRUE)
        scope_uuid == r.scope
    IN  ScopeResult(S, enter_scope(got.S, got.frame, scope_uuid), scope_uuid,
                    {Write("frame", got.frame.uuid)})

\* The frame is looked up under one owner for every actor.
handle_enter_one_owner(S, r, actor) ==
    LET got == get_context_frame(S, "operator", "operator", TRUE)
        scope_uuid == MkId(NoPrefix, strip_prefix(r.scope))
    IN  ScopeResult(S, enter_scope(got.S, got.frame, scope_uuid), scope_uuid,
                    {Write("frame", got.frame.uuid)})

\* core.handle_enter
handle_enter(S, r, actor) ==
    LET got == get_context_frame(S, actor, "operator", TRUE)
        scope_uuid == MkId(NoPrefix, strip_prefix(r.scope))
    IN  ScopeResult(S, enter_scope(got.S, got.frame, scope_uuid), scope_uuid,
                    {Write("frame", got.frame.uuid)})

\* The frame is fetched with create_if_missing set, in a transaction of
\* its own.
handle_leave_creating(S, r, actor) ==
    LET got == get_context_frame(S, actor, "operator", TRUE)
        scope_uuid == MkId(NoPrefix, strip_prefix(r.scope))
    IN  ScopeResult(got.S, leave_scope(got.S, got.frame, scope_uuid), scope_uuid,
                    {Write("frame", got.frame.uuid)})

\* core.handle_leave
handle_leave(S, r, actor) ==
    LET got == get_context_frame(S, actor, "operator", FALSE)
        scope_uuid == MkId(NoPrefix, strip_prefix(r.scope))
    IN  IF got.exc = "ResourceNotFound"
        THEN [Raise(S, "ValueError") EXCEPT !.cause = "ResourceNotFound"]
        ELSE ScopeResult(S, leave_scope(got.S, got.frame, scope_uuid), scope_uuid,
                         {Write("frame", got.frame.uuid)})

\* The body of handle_leave under the name of handle_focus.
handle_focus_leaving(S, r, actor) == handle_leave(S, r, actor)

\* core.handle_focus
handle_focus(S, r, actor) ==
    LET got == get_context_frame(S, actor, "operator", FALSE)
        scope_uuid == MkId(NoPrefix, strip_prefix(r.scope))
    IN  IF got.exc = "ResourceNotFound"
        THEN [Raise(S, "ValueError") EXCEPT !.cause = "ResourceNotFound"]
        ELSE ScopeResult(S, focus_scope(got.S, got.frame, scope_uuid), scope_uuid,
                         {Write("frame", got.frame.uuid)})

\* The handler _get_handler chose, run on store S.
RunHandler(h, S, r, inj) ==
    CASE h = "handle_create" -> handle_create(S, r)
      [] h = "handle_get" -> handle_get(S, r)
      [] h = "handle_edit" -> handle_edit(S, r, inj)
      [] h = "handle_forget" -> handle_forget(S, r)
      [] h = "handle_query" -> handle_query(S, r)
      [] h = "handle_enter" -> handle_enter(S, r, r.actor)
      [] h = "handle_leave" -> handle_leave(S, r, r.actor)
      [] h = "handle_focus" -> handle_focus(S, r, r.actor)
      [] h = "handle_add" -> handle_add(S, r)
      [] h = "handle_get_fact" -> handle_get_fact(S, r)
      [] h = "handle_amend" -> handle_amend(S, r)
      [] h = "handle_query_facts" -> handle_query_facts(S, r)
      [] h = "handle_search" -> handle_search(S, r)
      [] h = "handle_commit_artifact" -> handle_commit_artifact(S, r, inj)
      [] h = "handle_link" -> handle_link(S, r)
      [] h = "handle_edit_relation" -> handle_edit_relation(S, r)

\* ------------------------------------------------------------ audit wrapper
\* The flag is not read: every request is audited.
bypass_ignored(r) == FALSE

\* with_audit.wrapper, lines 81-86
bypass_audit(r) == r.bypass

\* The id is computed once, when the module is imported.
request_id_at_import(n) == 1

\* with_audit.wrapper, line 102: uid.generate_uuid(), fresh on every call
request_id(n) == n

ActionFact(u, rid) == [NewFact(u, "Action") EXCEPT !.req = rid]

ResultFact(u, status, code) ==
    [NewFact(u, "ActionResult") EXCEPT !.status = status, !.code = code]

ResultOf(u, ar, action) ==
    NewRelation(u, "result_of", MkId(NoPrefix, ar), MkId(NoPrefix, action))

FactW(f) == [k |-> "fact", v |-> f]

RelW(x) == [k |-> "rel", v |-> x]

\* The Action is not written before the handler runs.
ActionTxnsDeferred(action) == <<>>

\* with_audit.wrapper, lines 121-124: the Action in a transaction of its own.
ActionTxns(action) == << <<FactW(action)>> >>

\* with_audit.wrapper, lines 148-167 and 206-225: one transaction holds the
\* ActionResult and its result_of relation.
ResultTxns(ar, rel) == << <<FactW(ar), RelW(rel)>> >>

\* get_soil() as a context manager: commit on exit, rollback when a write
\* raises.  txns are run in order; failAt is the number of the write that
\* raises (0: none).  The result is the writes that persist.
RECURSIVE Committed(_, _)
Committed(txns, failAt) ==
    IF txns = <<>> THEN <<>>
    ELSE LET t == Head(txns)
         IN  IF failAt = 0 THEN t \o Committed(Tail(txns), 0)
             ELSE IF failAt > Len(t) THEN t \o Committed(Tail(txns), failAt - Len(t))
             ELSE <<>>

FactsIn(ws) == {ws[i].v : i \in {j \in 1..Len(ws) : ws[j].k = "fact"}}

RelsIn(ws) == {ws[i].v : i \in {j \in 1..Len(ws) : ws[j].k = "rel"}}

AuditWrites(ws) ==
    {Write(f.type, f.uuid) : f \in FactsIn(ws)} \cup
    {Write(x.kind, x.uuid) : x \in RelsIn(ws)}

\* The exception the wrapper lets out after a failed audit write is the
\* audit error.
reraise_audit_error(original, audit_error) == audit_error

\* with_audit.wrapper, lines 226-239: the audit error is logged, the bare
\* raise lets the exception being handled out.
reraise(original, audit_error) == original

\* ------------------------------------------------------------- invocations
NoInvocation ==
    [inv |-> 0, req |-> Req(MissingOp, FALSE, "", NoId, 0, "", "none"),
     handler |-> NoHandler, audited |-> FALSE, rid |-> NilUuid,
     action |-> NilUuid, exc |-> NoExc, hexc |-> NoExc, cause |-> NoExc,
     result |-> NoId,
     writes |-> {}, auditFailed |-> FALSE, seen |-> {}, rows |-> {},
     results |-> <<>>]

\* The record kept of an answered invocation.
Answer(c, dispatched, status, raised) ==
    [inv |-> c.inv, req |-> c.req, handler |-> c.handler,
     dispatched |-> dispatched, audited |-> c.audited, rid |-> c.rid,
     action |-> c.action, status |-> status, raised |-> raised,
     hexc |-> c.hexc, cause |-> c.cause, result |-> c.result,
     writes |-> c.writes,
     auditFailed |-> c.auditFailed, seen |-> c.seen, rows |-> c.rows,
     results |-> c.results]

\* semantic_api, lines 234-243 and 245-332: the response class.
Status(e) == IF e = NoExc THEN 200 ELSE StatusCode(e)

\* ----------------------------------------------------- the requests tried
FactIds == {f.uuid : f \in facts}

UserFactIds == {f.uuid : f \in {g \in facts : g.type \notin {"Action", "ActionResult"}}}

EntityIds == {e.uuid : e \in entities}

Plain(op, id) == Req(op, FALSE, "", id, 0, "", "none")

Requests ==
    {Plain(MissingOp, NoId), Plain("not_a_real_verb", NoId)}
    \cup {Req("create", b, t, NoId, 0, "", "none") :
            b \in BOOLEAN, t \in {"Entity", "Artifact", "CustomType"}}
    \cup {Req("create", FALSE, MissingField, NoId, 0, "", "none")}
    \cup {Req("add", b, t, NoId, 0, "", "none") :
            b \in BOOLEAN, t \in {"Note", "CustomFact"}}
    \cup {Plain("get", MkId(p, u)) : p \in {"soil_", NoPrefix}, u \in UserFactIds}
    \cup {Plain("get", MkId(p, u)) : p \in {"core_", NoPrefix}, u \in EntityIds}
    \cup {Plain("get", MkId(p, NilUuid)) : p \in {"soil_", "core_"}}
    \cup {Req("amend", b, "", MkId(p, u), 0, "", "none") :
            b \in BOOLEAN, p \in {"soil_", NoPrefix}, u \in FactIds}
    \cup {Plain("amend", MkId("soil_", NilUuid))}
    \cup {Plain("edit", MkId(p, u)) : p \in {"core_", NoPrefix}, u \in EntityIds}
    \cup {Req("edit", FALSE, "", MkId("core_", NilUuid), 0, "", un) :
            un \in {"none", "empty"}}
    \cup UNION {{Req("commit_artifact", FALSE, "", MkId("core_", e.uuid), h, o, "none") :
                    h \in {e.hash, e.hash + 1}, o \in {"ok", "bad"}} :
                e \in entities}
    \cup {Req("commit_artifact", FALSE, "", MkId("core_", NilUuid), 0, "", "none")}

\* The requests tried while audit writes may fail: one whose handler
\* returns, one whose handler raises ValueError, one whose handler raises
\* ResourceNotFound, and edits, in which the store may raise.
FaultRequests ==
    {Req("create", FALSE, t, NoId, 0, "", "none") : t \in {"Artifact", "CustomType"}}
    \cup {Plain("amend", MkId("soil_", NilUuid))}
    \cup {Plain("edit", MkId("core_", u)) : u \in EntityIds}

\* What the store or the authorisation collaborator may raise inside a handler.
Injected(c) ==
    IF c.handler = "handle_edit"
    THEN {NoExc, "LockConflictError", "PermissionDenied", "RuntimeError"}
    ELSE {NoExc}

\* No request has been put to the dispatcher on its own.
NoProbe ==
    [req |-> Plain(MissingOp, NoId), handler |-> NoHandler, outcome |-> "none",
     count |-> 0]

\* No user relation, no SSE client, and the day the system is started.
FirstDay == 10

\* A thread outside the SSE manager.
NoCall == [pc |-> "idle", op |-> "none", scope |-> NoId, scopes |-> {}, local |-> 0,
           id |-> 0]

\* No store handle is open and no thread is in the SSE manager.
AtRest ==
    /\ handles = [w \in Workers |-> <<>>]
    /\ lock = 0
    /\ threads = [t \in Threads |-> NoCall]
    /\ history = <<>>

NoClients == [connections |-> {}, client_id_counter |-> 0, warnings |-> 0]

Quiet ==
    /\ user_relation = {}
    /\ today = FirstDay
    /\ sse_manager = NoClients
    /\ streams = {}
    /\ AtRest

\* ------------------------------------------------------------------ actions
Init ==
    /\ facts = {}
    /\ relations = {}
    /\ entities = {}
    /\ nextUuid = 1
    /\ pc = [w \in Workers |-> "idle"]
    /\ cur = [w \in Workers |-> NoInvocation]
    /\ done = {}
    /\ nextInv = 1
    /\ faults = 0
    /\ Quiet
    /\ frames = {}
    /\ probe = NoProbe

\* semantic_api up to the call of the handler, and with_audit.wrapper up to
\* the commit of the Action.  failAt > 0: the Action write raises.
Dispatch(w, r, failAt) ==
    LET env == EnvelopeError(r)
        c0 == [NoInvocation EXCEPT !.inv = nextInv, !.req = r,
                                   !.handler = get_handler(r)]
    IN  /\ nextInv' = nextInv + 1
        /\ IF env # NoExc
           THEN /\ done' = done \cup {Answer(c0, FALSE, 400, env)}
                /\ UNCHANGED <<facts, relations, entities, nextUuid, pc, cur>>
           ELSE IF bypass_audit(r)
           THEN /\ pc' = [pc EXCEPT ![w] = "running"]
                /\ cur' = [cur EXCEPT ![w] = c0]
                /\ UNCHANGED <<facts, relations, entities, nextUuid, done>>
           ELSE LET rid == request_id(nextUuid)
                    action_uuid == nextUuid + 1
                    kept == Committed(ActionTxns(ActionFact(action_uuid, rid)), failAt)
                    c1 == [c0 EXCEPT !.audited = TRUE, !.rid = rid,
                                     !.action = action_uuid,
                                     !.writes = AuditWrites(kept),
                                     !.auditFailed = (failAt # 0)]
                IN  /\ facts' = facts \cup FactsIn(kept)
                    /\ nextUuid' = nextUuid + 2
                    /\ UNCHANGED <<relations, entities>>
                    /\ IF failAt = 0
                       THEN /\ pc' = [pc EXCEPT ![w] = "running"]
                            /\ cur' = [cur EXCEPT ![w] = c1]
                            /\ UNCHANGED done
                       ELSE /\ done' = done \cup
                                  {Answer(c1, FALSE, Status("RuntimeError"), "RuntimeError")}
                            /\ UNCHANGED <<pc, cur>>

\* The pool hands a request to an idle worker; the workers are alike, so
\* the lowest-numbered idle one takes it.
Free(w) == pc[w] = "idle" /\ \A v \in Workers : v < w => pc[v] # "idle"

Receive(w) ==
    /\ Free(w)
    /\ nextInv <= MaxInv
    /\ \E r \in Requests : Dispatch(w, r, 0)
    /\ UNCHANGED <<faults, others, apart>>

\* The handler's transaction ends with outcome out: the store takes its
\* writes, and control passes to the wrapper or, on the bypass path, to
\* semantic_api's response.
HandlerDone(w, out) ==
    LET c == cur[w]
        c2 == [c EXCEPT !.exc = out.exc, !.hexc = out.exc, !.cause = out.cause,
                        !.result = out.result, !.writes = @ \cup out.writes,
                        !.rows = out.rows, !.results = out.results]
    IN  /\ facts' = out.S.facts
        /\ relations' = out.S.relations
        /\ entities' = out.S.entities
        /\ nextUuid' = out.S.next
        /\ frames' = out.S.frames
        /\ user_relation' = out.S.user_relation
        /\ sse_manager' = out.S.sse
        /\ UNCHANGED <<nextInv, faults, apart>>
        /\ IF c.audited
           THEN /\ pc' = [pc EXCEPT ![w] = IF out.exc = NoExc THEN "returned"
                                            ELSE "raised"]
                /\ cur' = [cur EXCEPT ![w] = c2]
                /\ UNCHANGED done
           ELSE /\ pc' = [pc EXCEPT ![w] = "idle"]
                /\ cur' = [cur EXCEPT ![w] = NoInvocation]
                /\ done' = done \cup {Answer(c2, TRUE, Status(out.exc), out.exc)}

\* The handler proper, one store transaction.
Handle(w) ==
    /\ pc[w] = "running"
    /\ \E inj \in Injected(cur[w]) :
        HandlerDone(w, RunHandler(cur[w].handler, Store, cur[w].req, inj))
    /\ UNCHANGED probe

\* with_audit.wrapper, lines 130-169, run with failAt = 0; with failAt > 0
\* a write of the transaction raises and control passes to the except branch.
WriteSuccess(w, failAt) ==
    LET c == cur[w]
        ar == nextUuid
        kept == Committed(ResultTxns(ResultFact(ar, "success", "none"),
                                     ResultOf(nextUuid + 1, ar, c.action)), failAt)
        c2 == [c EXCEPT !.writes = @ \cup AuditWrites(kept)]
    IN  /\ facts' = facts \cup FactsIn(kept)
        /\ relations' = relations \cup RelsIn(kept)
        /\ nextUuid' = nextUuid + 2
        /\ UNCHANGED <<entities, nextInv>>
        /\ IF failAt = 0
           THEN /\ pc' = [pc EXCEPT ![w] = "idle"]
                /\ cur' = [cur EXCEPT ![w] = NoInvocation]
                /\ done' = done \cup {Answer(c2, TRUE, 200, NoExc)}
           ELSE /\ pc' = [pc EXCEPT ![w] = "raised"]
                /\ cur' = [cur EXCEPT ![w] = [c2 EXCEPT !.exc = "RuntimeError",
                                                        !.auditFailed = TRUE]]
                /\ UNCHANGED done

\* with_audit.wrapper, lines 171-239.
WriteError(w, failAt) ==
    LET c == cur[w]
        ar == nextUuid
        kept == Committed(ResultTxns(ResultFact(ar, "error", get_error_code(c.exc)),
                                     ResultOf(nextUuid + 1, ar, c.action)), failAt)
        out == IF failAt = 0 THEN c.exc ELSE reraise(c.exc, "RuntimeError")
        c2 == [c EXCEPT !.writes = @ \cup AuditWrites(kept),
                        !.auditFailed = (@ \/ failAt # 0)]
    IN  /\ facts' = facts \cup FactsIn(kept)
        /\ relations' = relations \cup RelsIn(kept)
        /\ nextUuid' = nextUuid + 2
        /\ UNCHANGED <<entities, nextInv>>
        /\ pc' = [pc EXCEPT ![w] = "idle"]
        /\ cur' = [cur EXCEPT ![w] = NoInvocation]
        /\ done' = done \cup {Answer(c2, TRUE, Status(out), out)}

AuditSuccess(w) ==
    pc[w] = "returned" /\ WriteSuccess(w, 0) /\ UNCHANGED <<faults, others, apart>>

AuditError(w) ==
    pc[w] = "raised" /\ WriteError(w, 0) /\ UNCHANGED <<faults, others, apart>>

\* The store fails during an audit write (database locked, disk full).
Fault == faults < MaxFaults /\ faults' = faults + 1 /\ UNCHANGED <<others, apart>>

ReceiveUnderFault(w) ==
    /\ Free(w)
    /\ nextInv <= MaxInv
    /\ \E r \in FaultRequests : Dispatch(w, r, 0)
    /\ UNCHANGED <<faults, others, apart>>

ActionWriteFails(w) ==
    /\ Free(w)
    /\ nextInv <= MaxInv
    /\ \E r \in FaultRequests : Dispatch(w, r, 1)
    /\ Fault

AuditSuccessFails(w) ==
    /\ pc[w] = "returned"
    /\ \E k \in 1..2 : WriteSuccess(w, k)
    /\ Fault

AuditErrorFails(w) ==
    /\ pc[w] = "raised"
    /\ \E k \in 1..2 : WriteError(w, k)
    /\ Fault

Next ==
    \E w \in Workers :
        \/ Receive(w)
        \/ Handle(w)
        \/ AuditSuccess(w)
        \/ AuditError(w)

Spec == Init /\ [][Next]_vars

NextFault ==
    \E w \in Workers :
        \/ ReceiveUnderFault(w)
        \/ Handle(w)
        \/ AuditSuccess(w)
        \/ AuditError(w)
        \/ ActionWriteFails(w)
        \/ AuditSuccessFails(w)
        \/ AuditErrorFails(w)

SpecFault == Init /\ [][NextFault]_vars

\* ---------------------------------------------------------------- amending
\* The Fact store's verbs, with amends whose reads and writes interleave:
\* the handler reads the original, other workers may run, and the handler's
\* writes follow.
AmendRequests ==
    {Plain("amend", MkId(p, u)) : p \in {"soil_", NoPrefix}, u \in UserFactIds}
    \cup {Req("amend", TRUE, "", MkId("soil_", u), 0, "", "none") : u \in UserFactIds}
    \cup {Plain("amend", MkId("soil_", NilUuid))}
    \cup {Req("add", FALSE, "Note", NoId, 0, "", "none")}
    \cup {Plain("get", MkId("soil_", 1))}
    \cup {[Req("query", FALSE, "Note", NoId, 0, "", "none") EXCEPT !.target_type = "fact"]}
    \cup {[Plain("search", NoId) EXCEPT !.target_type = "all"]}

\* A Note, live or already amended once.
InitAmend ==
    /\ \/ /\ facts = {NewFact(1, "Note")}
          /\ relations = {}
          /\ nextUuid = 2
       \/ /\ facts = {[NewFact(1, "Note") EXCEPT !.superseded_by = 2],
                      NewFact(2, "Note")}
          /\ relations = {NewRelation(3, "supersedes", MkId(NoPrefix, 2),
                                      MkId("soil_", 1))}
          /\ nextUuid = 4
    /\ entities = {}
    /\ pc = [w \in Workers |-> "idle"]
    /\ cur = [w \in Workers |-> NoInvocation]
    /\ done = {}
    /\ nextInv = 1
    /\ faults = 0
    /\ Quiet
    /\ frames = {}
    /\ probe = NoProbe

ReceiveAmend(w) ==
    /\ Free(w)
    /\ nextInv <= MaxInv
    /\ \E r \in AmendRequests : Dispatch(w, r, 0)
    /\ UNCHANGED <<faults, others, apart>>

\* The handlers other than handle_amend.
HandleOther(w) == cur[w].handler # "handle_amend" /\ Handle(w)

AmendRead(w) ==
    /\ pc[w] = "running"
    /\ cur[w].handler = "handle_amend"
    /\ pc' = [pc EXCEPT ![w] = "read"]
    /\ cur' = [cur EXCEPT ![w].seen = amend_read(Store, cur[w].req)]
    /\ UNCHANGED <<facts, relations, entities, nextUuid, done, nextInv, faults,
                   others, apart>>

AmendWrite(w) ==
    /\ pc[w] = "read"
    /\ HandlerDone(w, amend_write(Store, cur[w].req, cur[w].seen))
    /\ UNCHANGED probe

NextAmend ==
    \E w \in Workers :
        \/ ReceiveAmend(w)
        \/ HandleOther(w)
        \/ AmendRead(w)
        \/ AmendWrite(w)
        \/ AuditSuccess(w)
        \/ AuditError(w)

SpecAmend == InitAmend /\ [][NextAmend]_vars

\* ---------------------------------------------------------------- entities
\* The Entity store's verbs on one entity and on those created beside it.
Edit(id, set, fields) ==
    [Plain("edit", id) EXCEPT !.set = set, !.unset_fields = fields,
                              !.unset = IF fields = {} THEN "none" ELSE "fields"]

EntityRequests ==
    {[Req("create", FALSE, "Entity", NoId, 0, "", "none") EXCEPT !.data = [k \in {"a"} |-> 1]]}
    \cup {Edit(MkId("core_", u), [k \in {"a"} |-> 2], {}) : u \in EntityIds}
    \cup {Edit(MkId("core_", 1), [k \in {"c"} |-> 2], {"b"}),
          Edit(MkId(NoPrefix, 1), [k \in {"a"} |-> 2], {"a"}),
          Edit(MkId("core_", NilUuid), NoData, {"b"})}
    \cup {Plain("forget", MkId("core_", u)) : u \in EntityIds}
    \cup {Plain("forget", MkId("core_", NilUuid)),
          Plain("get", MkId("core_", 1)), Plain("query", NoId)}

\* One entity, as created or as edited once.
InitEntity ==
    /\ entities \in
        {{[NewEntity(1, "Entity") EXCEPT !.data = [k \in {"a", "b"} |-> 1]]},
         {[NewEntity(1, "Entity") EXCEPT !.data = [k \in {"a", "b", "c"} |-> 1],
                                        !.version = 2, !.hash = 1, !.previous_hash = 0]}}
    /\ facts = {}
    /\ relations = {}
    /\ nextUuid = 2
    /\ pc = [w \in Workers |-> "idle"]
    /\ cur = [w \in Workers |-> NoInvocation]
    /\ done = {}
    /\ nextInv = 1
    /\ faults = 0
    /\ Quiet
    /\ frames = {}
    /\ probe = NoProbe

ReceiveEntity(w) ==
    /\ Free(w)
    /\ nextInv <= MaxInv
    /\ \E r \in EntityRequests : Dispatch(w, r, 0)
    /\ UNCHANGED <<faults, others, apart>>

NextEntity ==
    \E w \in Workers :
        \/ ReceiveEntity(w)
        \/ Handle(w)
        \/ AuditSuccess(w)
        \/ AuditError(w)

SpecEntity == InitEntity /\ [][NextEntity]_vars

\* ------------------------------------------------------------------ scopes
\* The scope verbs of two operators on two scopes, and direct calls of the
\* context store on an agent's frame.
Scope(op, actor, id) == [Plain(op, NoId) EXCEPT !.actor = actor, !.scope = id]

ScopeRequests ==
    {Scope(op, "usr_a", MkId("core_", u)) :
        op \in {"enter", "leave", "focus"}, u \in EntityIds}
    \cup {Scope("enter", "usr_a", MkId(NoPrefix, 1))}
    \cup {Scope("enter", "usr_b", MkId("core_", 1))}

\* The states of an operator's scopes: nothing entered, one scope, two
\* scopes, with any of them or none as primary (none after the primary, a
\* third scope, was left).
ScopeStates ==
    UNION {{[active_scopes |-> q, primary_scope |-> p] : p \in Range(q) \cup {NoId}} :
            q \in {<<>>, <<MkId(NoPrefix, 1)>>,
                   <<MkId(NoPrefix, 1), MkId(NoPrefix, 2)>>}}

\* Two Artifacts stand for the scopes; an agent has a frame; operator usr_a
\* has none yet or has one in some state; operator usr_b has none.
InitScope ==
    /\ entities = {NewEntity(1, "Artifact"), NewEntity(2, "Artifact")}
    /\ \/ frames = {NewFrame(3, "agt_c", "agent")}
       \/ \E st \in ScopeStates :
            frames = {NewFrame(3, "agt_c", "agent"),
                      [NewFrame(4, "usr_a", "operator") EXCEPT
                            !.active_scopes = st.active_scopes,
                            !.primary_scope = st.primary_scope]}
    /\ facts = {}
    /\ relations = {}
    /\ nextUuid = 5
    /\ pc = [w \in Workers |-> "idle"]
    /\ cur = [w \in Workers |-> NoInvocation]
    /\ done = {}
    /\ nextInv = 1
    /\ faults = 0
    /\ Quiet
    /\ probe = NoProbe

ReceiveScope(w) ==
    /\ Free(w)
    /\ nextInv <= MaxInv
    /\ \E r \in ScopeRequests : Dispatch(w, r, 0)
    /\ UNCHANGED <<faults, others, apart>>

\* test_context.py: enter_scope, leave_scope or focus_scope called on a
\* frame that is not an operator's, once the requests have been answered.
ContextCall ==
    /\ probe = NoProbe
    /\ nextInv > MaxInv
    /\ \A w \in Workers : pc[w] = "idle"
    /\ \E f \in {g \in frames : g.owner_type # "operator"},
          op \in {"enter", "leave", "focus"} :
         LET scope == MkId(NoPrefix, 1)
             got == CASE op = "enter" -> enter_scope(Store, f, scope)
                      [] op = "leave" -> leave_scope(Store, f, scope)
                      [] op = "focus" -> focus_scope(Store, f, scope)
         IN  /\ frames' = got.S.frames
             /\ probe' = [req |-> Scope(op, f.owner, scope), handler |-> NoHandler,
                          outcome |-> IF got.exc = NoExc THEN "returned" ELSE "raised",
                          count |-> 0]
             /\ UNCHANGED <<facts, relations, entities, nextUuid, pc, cur, done,
                            nextInv, faults, user_relation, sse_manager, apart>>

NextScope ==
    \/ \E w \in Workers :
        \/ ReceiveScope(w)
        \/ Handle(w)
        \/ AuditSuccess(w)
        \/ AuditError(w)
    \/ ContextCall

SpecScope == InitScope /\ [][NextScope]_vars

\* -------------------------------------------------------------- containers
\* The containers that are visited.
MaxVisited == 4

Visit(v, context_size) ==
    [Plain("update_containers", MkId(NoPrefix, v)) EXCEPT
        !.context_size = context_size]

\* One operator's frame, no container visited yet.
InitContainers ==
    /\ frames = {NewFrame(1, "usr_a", "operator")}
    /\ entities = {}
    /\ facts = {}
    /\ relations = {}
    /\ nextUuid = 2
    /\ pc = [w \in Workers |-> "idle"]
    /\ cur = [w \in Workers |-> NoInvocation]
    /\ done = {}
    /\ nextInv = 1
    /\ faults = 0
    /\ Quiet
    /\ probe = NoProbe

\* test_context.py, lines 141-245: update_containers called on the frame
\* with a context_size inside the range or just outside it.
UpdateContainers ==
    \E f \in frames, v \in 1..MaxVisited,
       n \in (CONTEXT_SIZE_MIN - 1)..(CONTEXT_SIZE_MAX + 1) :
        LET got == update_containers(Store, f, MkId(NoPrefix, v), n)
        IN  /\ frames' = got.S.frames
            /\ probe' = [req |-> Visit(v, n), handler |-> NoHandler,
                         outcome |-> IF got.exc = NoExc THEN "returned"
                                     ELSE "raised",
                         count |-> 0]
            /\ UNCHANGED <<facts, relations, entities, nextUuid, pc, cur, done,
                           nextInv, faults, user_relation, sse_manager, apart>>

NextContainers == UpdateContainers

SpecContainers == InitContainers /\ [][NextContainers]_vars

\* --------------------------------------------------------------- relations
\* The days that pass.
MaxDays == 5

Link(source, target, days) ==
    [Plain("link", target) EXCEPT !.source = source, !.initial_horizon_days = days]

EditRelation(id, time_horizon) ==
    [Plain("edit_relation", id) EXCEPT
        !.set = [k \in {"time_horizon"} |-> time_horizon]]

RelationIds == {x.uuid : x \in user_relation}

\* link, while nothing is linked, with the smallest horizon the schema
\* allows; edit_relation with a horizon in the future, with one in the
\* past, and with none.
RelationRequests ==
    (IF user_relation = {} THEN {Link(MkId("core_", 1), MkId("core_", 2), 1)}
     ELSE {})
    \cup {EditRelation(MkId("core_", u), h) :
            u \in RelationIds, h \in {FirstDay + MaxDays, FirstDay - 1}}
    \cup {[Plain("edit_relation", MkId("core_", NilUuid)) EXCEPT
                !.set = [k \in {"metadata"} |-> 1]]}

\* Two Artifacts, and between them no relation yet or one linked today
\* with the default horizon.
InitRelation ==
    /\ entities = {NewEntity(1, "Artifact"), NewEntity(2, "Artifact")}
    /\ user_relation \in
        {{}, {NewUserRelation(3, "explicit_link", MkId("core_", 1),
                              MkId("core_", 2), FirstDay, DefaultHorizonDays)}}
    /\ today = FirstDay
    /\ facts = {}
    /\ relations = {}
    /\ frames = {}
    /\ nextUuid = 4
    /\ pc = [w \in Workers |-> "idle"]
    /\ cur = [w \in Workers |-> NoInvocation]
    /\ done = {}
    /\ nextInv = 1
    /\ faults = 0
    /\ probe = NoProbe
    /\ sse_manager = NoClients
    /\ streams = {}
    /\ AtRest

ReceiveRelation(w) ==
    /\ Free(w)
    /\ nextInv <= MaxInv
    /\ \E r \in RelationRequests : Dispatch(w, r, 0)
    /\ UNCHANGED <<faults, others, apart>>

\* MaxDays days pass, once.
Leap ==
    /\ today = FirstDay
    /\ \A w \in Workers : pc[w] = "idle"
    /\ today' = today + MaxDays
    /\ UNCHANGED <<facts, relations, entities, nextUuid, pc, cur, done, nextInv,
                   faults, others, streams, rest>>

\* test_user_relations.py: update_time_horizon or expire called on the
\* store, between requests.
RelationCall ==
    /\ \A w \in Workers : pc[w] = "idle"
    /\ \E u \in RelationIds \cup {NilUuid}, op \in {"update_time_horizon", "expire"} :
         LET id  == MkId("core_", u)
             out == IF op = "expire" THEN expire(Store, id)
                    ELSE update_time_horizon(Store, id)
         IN  /\ user_relation' = out.S.user_relation
             /\ probe' = [req |-> Plain(op, id), handler |-> NoHandler,
                          outcome |-> IF out.exc = NoExc THEN "returned"
                                      ELSE "raised",
                          count |-> 0]
             /\ UNCHANGED <<facts, relations, entities, nextUuid, pc, cur, done,
                            nextInv, faults, frames, sse_manager, apart>>

NextRelation ==
    \/ \E w \in Workers :
        \/ ReceiveRelation(w)
        \/ Handle(w)
        \/ AuditSuccess(w)
        \/ AuditError(w)
    \/ Leap
    \/ RelationCall

SpecRelation == InitRelation /\ [][NextRelation]_vars

\* The store's relation calls alone, day after day, on a relation linked
\* with the smallest horizon or with the default one.
InitHorizon ==
    /\ entities = {NewEntity(1, "Artifact"), NewEntity(2, "Artifact")}
    /\ \E days \in {1, DefaultHorizonDays} :
        user_relation = {NewUserRelation(3, "explicit_link", MkId("core_", 1),
                                         MkId("core_", 2), FirstDay, days)}
    /\ today = FirstDay
    /\ facts = {}
    /\ relations = {}
    /\ frames = {}
    /\ nextUuid = 4
    /\ pc = [w \in Workers |-> "idle"]
    /\ cur = [w \in Workers |-> NoInvocation]
    /\ done = {}
    /\ nextInv = 1
    /\ faults = 0
    /\ probe = NoProbe
    /\ sse_manager = NoClients
    /\ streams = {}
    /\ AtRest

\* A day passes.
Tick ==
    /\ today < FirstDay + MaxDays
    /\ today' = today + 1
    /\ UNCHANGED <<facts, relations, entities, nextUuid, pc, cur, done, nextInv,
                   faults, others, streams, rest>>

NextHorizon == Tick \/ RelationCall

SpecHorizon == InitHorizon /\ [][NextHorizon]_vars

\* ------------------------------------------------------------------ events
\* The clients that register, and the events a queue is let to hold.
MaxClients == 2

MaxQueued == 2

\* The scopes subscribed to and published for.
Scopes == {MkId("core_", 1), MkId("core_", 2)}

\* A call of the manager or of publish_event, as the tests make them.
Publish(event_type, scope_uuid) ==
    [Plain("publish", NoId) EXCEPT !.type = event_type, !.scope = scope_uuid]

\* The payload published for a scope.
DataFor(scope_uuid) == [artifact_uuid |-> scope_uuid, commit_hash |-> 0]

InitEvents ==
    /\ entities = {}
    /\ facts = {}
    /\ relations = {}
    /\ frames = {}
    /\ nextUuid = 1
    /\ pc = [w \in Workers |-> "idle"]
    /\ cur = [w \in Workers |-> NoInvocation]
    /\ done = {}
    /\ nextInv = 1
    /\ faults = 0
    /\ probe = NoProbe
    /\ user_relation = {}
    /\ today = FirstDay
    /\ sse_manager = NoClients
    /\ streams = {}
    /\ AtRest

\* test_sse.py, TestSSEManager: sse_manager.register called directly.
RegisterCall ==
    /\ sse_manager.client_id_counter < MaxClients
    /\ \E scopes \in SUBSET Scopes :
        /\ sse_manager' = register(sse_manager, "usr_a", scopes)
        /\ probe' = [req |-> Plain("register", NoId), handler |-> NoHandler,
                     outcome |-> "returned",
                     count |-> sse_manager.client_id_counter + 1]
    /\ UNCHANGED <<facts, relations, entities, nextUuid, pc, cur, done, nextInv,
                   faults, frames, user_relation, apart>>

\* sse_manager.unregister called directly, for a client registered or not.
UnregisterCall ==
    /\ \E id \in 1..MaxClients :
        /\ sse_manager' = unregister(sse_manager, id)
        /\ probe' = [req |-> Plain("unregister", NoId), handler |-> NoHandler,
                     outcome |-> "returned", count |-> id]
    /\ UNCHANGED <<facts, relations, entities, nextUuid, pc, cur, done, nextInv,
                   faults, frames, user_relation, apart>>

\* publish_event called directly, with a type of EVENT_TYPES or another.
PublishCall ==
    /\ \A c \in sse_manager.connections : Len(c.queue) < MaxQueued
    /\ \E t \in {"artifact_delta", "invalid_event_type"},
          scope_uuid \in Scopes \cup {NoId} :
        LET pub == publish(sse_manager, t, DataFor(scope_uuid), scope_uuid)
        IN  /\ sse_manager' = pub.M
            /\ probe' = [req |-> Publish(t, scope_uuid), handler |-> NoHandler,
                         outcome |-> IF pub.exc = NoExc THEN "returned"
                                     ELSE "raised",
                         count |-> pub.count]
    /\ UNCHANGED <<facts, relations, entities, nextUuid, pc, cur, done, nextInv,
                   faults, frames, user_relation, apart>>

NextEvents == RegisterCall \/ UnregisterCall \/ PublishCall

SpecEvents == InitEvents /\ [][NextEvents]_vars

\* ----------------------------------------------------------------- streams
ClientIds == 1..MaxClients

\* generate() of client id: where it stands, whether the client is still
\* there, and how often its finally clause has called unregister. left_at
\* remembers where the stream stood when the client went away.
NewStream(id) ==
    [client_id |-> id, pc |-> "waiting", connected |-> TRUE, unregistered |-> 0,
     left_at |-> "none"]

StreamOf(id) == {st \in streams : st.client_id = id}

PutStream(st, st2) == (streams \ {st}) \cup {st2}

AtYield(st) == st.pc \in {"yield_event", "yield_data", "yield_keepalive"}

\* events_stream, lines 247-289: the connection is registered and the
\* response starts to run generate().
Connect ==
    /\ sse_manager.client_id_counter < MaxClients
    /\ sse_manager' = register(sse_manager, "usr_a", {})
    /\ streams' = streams \cup {NewStream(sse_manager.client_id_counter + 1)}
    /\ UNCHANGED <<facts, relations, entities, nextUuid, pc, cur, done, nextInv,
                   faults, probe, frames, user_relation, today, rest>>

\* generate, lines 301-306: conn.queue.get returns an event, and the
\* first of its two lines is yielded.
Get(id) ==
    \E st \in StreamOf(id), c \in ConnOf(sse_manager, id) :
        /\ st.pc = "waiting"
        /\ c.queue # <<>>
        /\ sse_manager' = [sse_manager EXCEPT !.connections =
                (@ \ {c}) \cup {[c EXCEPT !.queue = Tail(@)]}]
        /\ streams' = PutStream(st, [st EXCEPT !.pc = "yield_event"])
        /\ UNCHANGED <<facts, relations, entities, nextUuid, pc, cur, done,
                       nextInv, faults, probe, frames, user_relation, today, rest>>

\* generate, lines 308-311: the timed wait ends with Queue.Empty, and a
\* keepalive is yielded.
Timeout(id) ==
    \E st \in StreamOf(id), c \in ConnOf(sse_manager, id) :
        /\ st.pc = "waiting"
        /\ c.queue = <<>>
        /\ streams' = PutStream(st, [st EXCEPT !.pc = "yield_keepalive"])
        /\ UNCHANGED <<facts, relations, entities, nextUuid, pc, cur, done,
                       nextInv, faults, others, today, rest>>

\* The client took what was yielded: generate goes on.
Resume(id) ==
    \E st \in StreamOf(id) :
        /\ AtYield(st)
        /\ st.connected
        /\ streams' = PutStream(st, [st EXCEPT !.pc =
                IF st.pc = "yield_event" THEN "yield_data" ELSE "waiting"])
        /\ UNCHANGED <<facts, relations, entities, nextUuid, pc, cur, done,
                       nextInv, faults, others, today, rest>>

\* generate, lines 313-318: the client is gone, GeneratorExit is thrown at
\* the yield, and the finally clause unregisters the connection.
Close(id) ==
    \E st \in StreamOf(id) :
        /\ AtYield(st)
        /\ ~st.connected
        /\ sse_manager' = unregister(sse_manager, id)
        /\ streams' = PutStream(st, [st EXCEPT !.pc = "ended",
                                               !.unregistered = @ + 1])
        /\ UNCHANGED <<facts, relations, entities, nextUuid, pc, cur, done,
                       nextInv, faults, probe, frames, user_relation, today, rest>>

\* The client goes away.
Disconnect(id) ==
    \E st \in StreamOf(id) :
        /\ st.connected
        /\ streams' = PutStream(st, [st EXCEPT !.connected = FALSE,
                                               !.left_at = st.pc])
        /\ UNCHANGED <<facts, relations, entities, nextUuid, pc, cur, done,
                       nextInv, faults, others, today, rest>>

\* An event for every scope is published while clients are connected.
PublishGlobal ==
    /\ \A c \in sse_manager.connections : Len(c.queue) < MaxQueued
    /\ sse_manager' = publish(sse_manager, "artifact_delta", DataFor(NoId), NoId).M
    /\ UNCHANGED <<facts, relations, entities, nextUuid, pc, cur, done, nextInv,
                   faults, probe, frames, user_relation, apart>>

\* The steps of the sender of client id.
StreamStep(id) == Get(id) \/ Timeout(id) \/ Resume(id) \/ Close(id)

NextStream ==
    \/ Connect
    \/ PublishGlobal
    \/ \E id \in ClientIds :
        \/ Get(id)
        \/ Timeout(id)
        \/ Resume(id)
        \/ Close(id)
        \/ Disconnect(id)

\* Each subscription has a sender of its own, whose waits are timed: it is
\* never held up for ever.
SpecStream ==
    /\ InitEvents
    /\ [][NextStream]_vars
    /\ \A id \in ClientIds : WF_vars(StreamStep(id))

\* ----------------------------------------------------------- notification
\* commit_artifact on an Artifact of scope core_2, while one client is
\* subscribed to that scope and another to no scope.
NotifyRequests ==
    UNION {{Req("commit_artifact", FALSE, "", MkId("core_", e.uuid), h, o, "none") :
                h \in {e.hash, e.hash + 1}, o \in {"ok", "bad"}} :
            e \in entities}

\* What the event bus raises while a handler publishes: nothing, or an
\* error of its own.
BusFaults == {NoExc, "RuntimeError"}

InitNotify ==
    /\ entities = {[NewEntity(1, "Artifact") EXCEPT
                        !.data = [k \in {"scope_uuid"} |-> MkId("core_", 2)]]}
    /\ sse_manager = register(register(NoClients, "usr_a", {MkId("core_", 2)}),
                              "usr_b", {})
    /\ facts = {}
    /\ relations = {}
    /\ frames = {}
    /\ nextUuid = 2
    /\ pc = [w \in Workers |-> "idle"]
    /\ cur = [w \in Workers |-> NoInvocation]
    /\ done = {}
    /\ nextInv = 1
    /\ faults = 0
    /\ probe = NoProbe
    /\ user_relation = {}
    /\ today = FirstDay
    /\ streams = {}
    /\ AtRest

ReceiveNotify(w) ==
    /\ Free(w)
    /\ nextInv <= MaxInv
    /\ \E r \in NotifyRequests : Dispatch(w, r, 0)
    /\ UNCHANGED <<faults, others, apart>>

\* The handler, with the event bus working or failing.
HandleNotify(w) ==
    /\ pc[w] = "running"
    /\ \E inj \in BusFaults :
        HandlerDone(w, RunHandler(cur[w].handler, Store, cur[w].req, inj))
    /\ UNCHANGED probe

NextNotify ==
    \E w \in Workers :
        \/ ReceiveNotify(w)
        \/ HandleNotify(w)
        \/ AuditSuccess(w)
        \/ AuditError(w)

SpecNotify == InitNotify /\ [][NextNotify]_vars

\* ------------------------------------------------------------------ search
\* The rows a store holds when the search is made.
MaxRows == 2

SearchTargets == {"entity", "fact", "all"}

Search(target_type, limit) ==
    [Plain("search", NoId) EXCEPT !.target_type = target_type, !.limit = limit]

\* Pages of one row and of as many rows as a store holds.
SearchRequests ==
    {Search(tt, limit) : tt \in SearchTargets, limit \in {1, MaxRows}}

\* Each store holds up to MaxRows rows, every one matching the query.
InitSearch ==
    /\ \E n \in {1, MaxRows} : entities = {NewEntity(u, "Entity") : u \in 1..n}
    /\ \E n \in {0, MaxRows} :
        facts = {NewFact(u, "Note") : u \in (MaxRows + 1)..(MaxRows + n)}
    /\ relations = {}
    /\ frames = {}
    /\ nextUuid = 2 * MaxRows + 1
    /\ pc = [w \in Workers |-> "idle"]
    /\ cur = [w \in Workers |-> NoInvocation]
    /\ done = {}
    /\ nextInv = 1
    /\ faults = 0
    /\ Quiet
    /\ probe = NoProbe

ReceiveSearch(w) ==
    /\ Free(w)
    /\ nextInv <= MaxInv
    /\ \E r \in SearchRequests : Dispatch(w, r, 0)
    /\ UNCHANGED <<faults, others, apart>>

NextSearch ==
    \E w \in Workers :
        \/ ReceiveSearch(w)
        \/ Handle(w)
        \/ AuditSuccess(w)

SpecSearch == InitSearch /\ [][NextSearch]_vars

\* ------------------------------------------------------ scoped acquisition
\* The store a handler's with-block acquires.
StoreOf(h) == IF h = "handle_amend" THEN "soil" ELSE "core"

\* The tables of each store.
Tables(store) ==
    IF store = "soil" THEN {"facts", "relations"}
    ELSE {"entities", "frames", "user_relation"}

\* get_core().__enter__ / get_soil().__enter__: a handle with nothing
\* written through it.  work holds the store's tables as the handle's
\* transaction has written them, seen the rows the handler read, made the
\* uuid of the row it created, writes what it wrote so far.
NewHandle(store, S) ==
    [store |-> store, dirty |-> FALSE, work |-> S, calls |-> 0, seen |-> {},
     made |-> NilUuid, writes |-> {}, result |-> NoId, todo |-> {}, rows |-> {},
     results |-> <<>>, facts |-> {}]

\* The store as read through a handle: its own writes over the committed
\* tables.
View(S, hd) ==
    IF hd.dirty
    THEN [k \in DOMAIN S |-> IF k \in Tables(hd.store) THEN hd.work[k] ELSE S[k]]
    ELSE S

\* The facts a transaction of the Entity store created are committed with it.
commit(S, hd) == [View(S, hd) EXCEPT !.facts = @ \cup hd.facts]

rollback(S, hd) == S

\* The handle's __exit__: commit when the block ends without an exception,
\* rollback when an exception leaves it; the connection is closed either way.
scoped_exit(S, hd, exc) == IF exc = NoExc THEN commit(S, hd) ELSE rollback(S, hd)

\* The store calls a handler makes inside its with-block, in order.
Program(h) ==
    CASE h = "handle_forget" -> <<"get_by_id", "create", "supersede", "get_by_id">>
      [] h = "handle_edit" -> <<"get_by_id", "update_data", "get_by_id">>
      [] h = "handle_amend" ->
            <<"get_item", "create_item", "mark_superseded", "create_relation",
              "get_item">>

\* Every call of a handler is in a with-block of its own.
BlockEnds_each_call(h) == 1..Len(Program(h))

\* The calls after which a with-block of the handler ends: each of these
\* handlers has one block, which holds all its calls.
BlockEnds(h) == {Len(Program(h))}

\* What a store call leaves: the store as the handle now reads it, the
\* exception raised, and the handler's locals.
Returned(V, exc, seen, made, ws, res) ==
    [V |-> V, exc |-> exc, seen |-> seen, made |-> made, writes |-> ws,
     result |-> res]

Failed(V, hd, exc) == Returned(V, exc, hd.seen, hd.made, {}, NoId)

\* handle_forget, lines 220-233, call by call.
forget_call(V, r, hd) ==
    LET row == get_by_id(V, MkId(NoPrefix, strip_prefix(r.target)))
        e == CHOOSE x \in row : TRUE
    IN  IF row = {} THEN Failed(V, hd, "ResourceNotFound")
        ELSE CASE hd.calls = 0 -> Returned(V, NoExc, row, NilUuid, {}, NoId)
               [] hd.calls = 1 ->
                    Returned([V EXCEPT !.entities = @ \cup {NewEntity(V.next, "Tombstone")},
                                     !.next = @ + 1],
                           NoExc, hd.seen, V.next, {Write("entity", V.next)}, NoId)
               [] hd.calls = 2 ->
                    Returned(supersede(V, e, hd.made), NoExc, hd.seen, hd.made,
                           {Write("supersede", e.uuid)}, NoId)
               [] hd.calls = 3 ->
                    Returned(V, NoExc, row, hd.made, {}, add_core_prefix(e.uuid))

\* handle_edit, lines 180-202, call by call: the data written is computed
\* from the row the first call read.
edit_call(V, r, hd) ==
    LET row == get_by_id(V, MkId(NoPrefix, strip_prefix(r.target)))
        e == CHOOSE x \in row : TRUE
        current == CHOOSE x \in hd.seen : TRUE
        current_data == pop(update(current.data, r.set), r.unset_fields)
    IN  IF row = {} THEN Failed(V, hd, "ResourceNotFound")
        ELSE CASE hd.calls = 0 -> Returned(V, NoExc, row, NilUuid, {}, NoId)
               [] hd.calls = 1 ->
                    Returned(update_data(V, e, current_data), NoExc, hd.seen,
                           NilUuid, {Write("update", e.uuid)}, NoId)
               [] hd.calls = 2 ->
                    Returned(V, NoExc, row, NilUuid, {}, add_core_prefix(e.uuid))

\* handle_amend, lines 184-265, call by call.
amend_call(V, r, hd) ==
    LET original == amend_read(V, r)
        o == CHOOSE f \in hd.seen : TRUE
        m == mark_superseded(V, r.target, hd.made)
    IN  CASE hd.calls = 0 ->
                IF original = {} THEN Failed(V, hd, "ResourceNotFound")
                ELSE IF (CHOOSE f \in original : TRUE).superseded_by # NilUuid
                THEN Failed(V, hd, "MGValidationError")
                ELSE Returned(V, NoExc, original, NilUuid, {}, NoId)
          [] hd.calls = 1 ->
                Returned([V EXCEPT !.facts = @ \cup {NewFact(V.next, o.type)},
                                 !.next = @ + 1],
                       NoExc, hd.seen, V.next, {Write("fact", V.next)}, NoId)
          [] hd.calls = 2 ->
                IF ~m.ok THEN Failed(V, hd, "MGValidationError")
                ELSE Returned(m.S, NoExc, hd.seen, hd.made,
                            {Write("supersede", o.uuid)}, NoId)
          [] hd.calls = 3 ->
                Returned([V EXCEPT !.relations = @ \cup
                            {NewRelation(V.next, "supersedes",
                                         MkId(NoPrefix, hd.made), r.target)},
                                 !.next = @ + 1],
                       NoExc, hd.seen, hd.made, {Write("relation", V.next)}, NoId)
          [] hd.calls = 4 ->
                Returned(V, NoExc, hd.seen, hd.made, {}, add_soil_prefix(hd.made))

StoreCall(h, V, r, hd) ==
    CASE h = "handle_forget" -> forget_call(V, r, hd)
      [] h = "handle_edit" -> edit_call(V, r, hd)
      [] h = "handle_amend" -> amend_call(V, r, hd)

\* What a store call may raise of itself (disk full, I/O error); the
\* store fails MaxFaults times at most.
StoreFaults == {NoExc, "RuntimeError"}

\* The innermost handle a worker holds.
Held(w) == handles[w][Len(handles[w])]

\* Another worker's transaction has written to the store and not ended: it
\* holds the store's write lock.
WriteLocked(w, store) ==
    \E v \in Workers \ {w} :
        \E i \in DOMAIN handles[v] : handles[v][i].store = store /\ handles[v][i].dirty

\* The with-block is left with exception exc, or at its end when exc is
\* none: the handle's __exit__ runs and control passes to the wrapper.
Exit(w, hd, exc, cause) ==
    LET S2 == scoped_exit(Store, hd, exc)
        c2 == [cur[w] EXCEPT !.exc = exc, !.hexc = exc, !.cause = cause,
                             !.result = IF exc = NoExc THEN hd.result ELSE NoId,
                             !.writes = @ \cup hd.writes,
                             !.rows = hd.rows, !.results = hd.results]
    IN  /\ facts' = S2.facts
        /\ relations' = S2.relations
        /\ entities' = S2.entities
        /\ frames' = S2.frames
        /\ user_relation' = S2.user_relation
        /\ handles' = [handles EXCEPT ![w] = <<>>]
        /\ pc' = [pc EXCEPT ![w] = IF exc = NoExc THEN "returned" ELSE "raised"]
        /\ cur' = [cur EXCEPT ![w] = c2]
        /\ UNCHANGED <<done, nextInv, probe, sse_manager, today, streams, lock,
                       threads, history>>

\* The next store call of the handler, made through handle hd: it returns,
\* or it raises and the exception leaves the with-block; the block ends
\* with the return of its last call.  A call that writes waits for the
\* store's write lock.
NextCall(w, hd) ==
    \E inj \in StoreFaults :
        LET h == cur[w].handler
            V == [View(Store, hd) EXCEPT !.next = nextUuid]
            out == IF inj # NoExc THEN Failed(V, hd, inj)
                   ELSE StoreCall(h, V, cur[w].req, hd)
            hd2 == [hd EXCEPT !.dirty = @ \/ out.writes # {}, !.work = out.V,
                              !.calls = @ + 1, !.seen = out.seen,
                              !.made = out.made, !.writes = @ \cup out.writes,
                              !.result = out.result]
            S2 == commit(Store, hd2)
        IN  /\ out.writes # {} => ~WriteLocked(w, hd.store)
            /\ inj # NoExc => faults < MaxFaults
            /\ faults' = IF inj # NoExc THEN faults + 1 ELSE faults
            /\ nextUuid' = out.V.next
            /\ IF out.exc # NoExc THEN Exit(w, hd, out.exc, out.exc)
               ELSE IF hd2.calls = Len(Program(h)) THEN Exit(w, hd2, NoExc, NoExc)
               ELSE IF hd2.calls \in BlockEnds(h)
               THEN /\ handles' = [handles EXCEPT ![w] = <<[hd2 EXCEPT !.dirty = FALSE]>>]
                    /\ facts' = S2.facts
                    /\ relations' = S2.relations
                    /\ entities' = S2.entities
                    /\ pc' = [pc EXCEPT ![w] = "held"]
                    /\ UNCHANGED <<cur, done, nextInv, others, today, streams, lock,
                                   threads, history>>
               ELSE /\ handles' = [handles EXCEPT ![w] = <<hd2>>]
                    /\ pc' = [pc EXCEPT ![w] = "held"]
                    /\ UNCHANGED <<facts, relations, entities, cur, done, nextInv,
                                   others, today, streams, lock, threads, history>>

\* The worker enters the handler's with-block and makes its first call.
Enter(w) ==
    /\ pc[w] = "running"
    /\ cur[w].handler \in {"handle_forget", "handle_edit", "handle_amend"}
    /\ NextCall(w, NewHandle(StoreOf(cur[w].handler), Store))

\* The handler goes on inside its with-block.
CallStore(w) == pc[w] = "held" /\ NextCall(w, Held(w))

\* The wrapper's audit writes wait for the Fact store's write lock.
SoilFree(w) == ~WriteLocked(w, "soil")

TxnRequests ==
    {Plain("forget", MkId("core_", 1)),
     Edit(MkId("core_", 1), [k \in {"a"} |-> 2], {"b"}),
     Plain("amend", MkId("soil_", 2))}

\* An entity and a Note.
InitTxn ==
    /\ entities = {[NewEntity(1, "Entity") EXCEPT !.data = [k \in {"a", "b"} |-> 1]]}
    /\ facts = {NewFact(2, "Note")}
    /\ relations = {}
    /\ frames = {}
    /\ nextUuid = 3
    /\ pc = [w \in Workers |-> "idle"]
    /\ cur = [w \in Workers |-> NoInvocation]
    /\ done = {}
    /\ nextInv = 1
    /\ faults = 0
    /\ Quiet
    /\ probe = NoProbe

\* The requests received so far.
Tried == {d.req : d \in done} \cup {cur[v].req : v \in {u \in Workers : pc[u] # "idle"}}

\* Each request of the menu is made once.
ReceiveTxn(w) ==
    /\ Free(w)
    /\ SoilFree(w)
    /\ nextInv <= MaxInv
    /\ \E r \in TxnRequests \ Tried : Dispatch(w, r, 0)
    /\ UNCHANGED <<faults, others, apart>>

NextTxn ==
    \E w \in Workers :
        \/ ReceiveTxn(w)
        \/ Enter(w)
        \/ CallStore(w)
        \/ SoilFree(w) /\ AuditSuccess(w)
        \/ SoilFree(w) /\ AuditError(w)

SpecTxn == InitTxn /\ [][NextTxn]_vars

\* ---------------------------------------------------------------- registry
\* The lock is taken whether or not a thread holds it.
lock_free_unguarded(L) == TRUE

\* threading.Lock.acquire returns when no thread holds the lock.
lock_free(L) == L = 0

\* None, as unregister returns it.
None == 0

RegistryIds(M) == {c.client_id : c \in M.connections}

\* A call that returned: what it was given, what it returned, the client
\* ids registered before and after it, the clients on whose queue it put
\* an event, and the number of that event.
Entry(call, ret, before, after, to, seq) ==
    [op |-> call.op, id |-> call.id, scope |-> call.scope, scopes |-> call.scopes,
     ret |-> ret, before |-> before, after |-> after, to |-> to, seq |-> seq]

\* The events published so far.
Events == {i \in DOMAIN history : history[i].op = "publish"}

\* The calls a thread makes: register with no scope or with one, unregister
\* of a client id, publish for a scope or for none, get_connection_count.
RegistryCalls ==
    {[NoCall EXCEPT !.pc = "load", !.op = "register", !.scopes = ss] :
        ss \in {{}, {MkId("core_", 1)}}}
    \cup {[NoCall EXCEPT !.pc = "last", !.op = "unregister", !.id = id] :
            id \in 1..MaxClients}
    \cup {[NoCall EXCEPT !.pc = "last", !.op = "publish", !.scope = scope_uuid] :
            scope_uuid \in {NoId, MkId("core_", 1)}}
    \cup {[NoCall EXCEPT !.pc = "last", !.op = "get_connection_count"]}

InitRegistry == InitEvents

\* with self._lock: a thread calls the manager and takes the lock.
Acquire(t) ==
    /\ threads[t].pc = "idle"
    /\ Len(history) + Cardinality({u \in Threads : threads[u].pc # "idle"}) < MaxCalls
    /\ lock_free(lock)
    /\ lock' = t
    /\ \E call \in RegistryCalls : threads' = [threads EXCEPT ![t] = call]
    /\ UNCHANGED <<facts, relations, entities, nextUuid, pc, cur, done, nextInv,
                   faults, others, today, streams, handles, history>>

\* register, lines 112-113: the counter is read, written, and read again
\* for the client id.
Statement(t) ==
    LET call == threads[t]
    IN  /\ call.pc \in {"load", "store", "name"}
        /\ CASE call.pc = "load" ->
                    /\ threads' = [threads EXCEPT ![t].pc = "store",
                                          ![t].local = sse_manager.client_id_counter]
                    /\ UNCHANGED sse_manager
             [] call.pc = "store" ->
                    /\ threads' = [threads EXCEPT ![t].pc = "name"]
                    /\ sse_manager' = [sse_manager EXCEPT
                                         !.client_id_counter = call.local + 1]
             [] call.pc = "name" ->
                    /\ threads' = [threads EXCEPT ![t].pc = "last",
                                          ![t].id = sse_manager.client_id_counter]
                    /\ UNCHANGED sse_manager
        /\ UNCHANGED <<facts, relations, entities, nextUuid, pc, cur, done, nextInv,
                       faults, probe, frames, user_relation, today, streams,
                       handles, lock, history>>

\* The last statement of the call and the end of its with-block: the
\* registry is changed or read, the lock released, and the call returns.
Finish(t) ==
    LET call == threads[t]
        M == sse_manager
        before == RegistryIds(M)
        seq == Cardinality(Events) + 1
        pub == publish(M, "artifact_delta",
                       [artifact_uuid |-> call.scope, commit_hash |-> seq], call.scope)
        M2 == CASE call.op = "register" ->
                    [M EXCEPT !.connections =
                        {c \in @ : c.client_id # call.id}
                        \cup {NewConnection(call.id, "usr_a", call.scopes)}]
                [] call.op = "unregister" -> unregister(M, call.id)
                [] call.op = "publish" -> pub.M
                [] OTHER -> M
        ret == CASE call.op = "register" -> call.id
                 [] call.op = "unregister" ->
                        IF ConnOf(M, call.id) = {} THEN None ELSE call.id
                 [] call.op = "publish" -> pub.count
                 [] OTHER -> Cardinality(M.connections)
        to == IF call.op # "publish" THEN {}
              ELSE {c.client_id : c \in {x \in M.connections :
                        \E y \in pub.M.connections :
                            y.client_id = x.client_id /\ Len(y.queue) > Len(x.queue)}}
    IN  /\ call.pc = "last"
        /\ sse_manager' = M2
        /\ lock' = 0
        /\ threads' = [threads EXCEPT ![t] = NoCall]
        /\ history' = Append(history,
                             Entry(call, ret, before, RegistryIds(M2), to, seq))
        /\ UNCHANGED <<facts, relations, entities, nextUuid, pc, cur, done, nextInv,
                       faults, probe, frames, user_relation, today, streams,
                       handles>>

NextRegistry == \E t \in Threads : Acquire(t) \/ Statement(t) \/ Finish(t)

SpecRegistry == InitRegistry /\ [][NextRegistry]_vars

\* ----------------------------------------------------------------- explore
\* ExploreRequest.kind, when absent
NoKind == ""

\* ExploreRequest: radius and limit, their least values, and limit's default
MinRadius == 1

MinLimit == 1

ExploreLimit == 100

Explore(anchor, direction, radius, limit) ==
    [Plain("explore", NoId) EXCEPT !.anchor = anchor, !.direction = direction,
                                   !.radius = radius, !.limit = limit,
                                   !.kind = NoKind]

\* Core.relation.list_outbound
list_outbound(S, source, alive_only) ==
    {x \in S.user_relation :
        /\ x.source = strip_prefix(source)
        /\ alive_only => is_alive(S, x)}

\* handle_explore, core.py lines 544-552 and 569-577: the edge as returned
Edge(x, direction) ==
    [uuid |-> add_core_prefix(x.uuid), kind |-> x.kind,
     source |-> add_core_prefix(x.source), target |-> add_core_prefix(x.target),
     direction |-> direction]

\* handle_explore, core.py lines 535-557 and 560-582: the rows of one
\* direction of the node at the given distance, in the order the store
\* lists them
RECURSIVE expand(_, _, _, _, _)
expand(r, st, rows, direction, distance) ==
    IF rows = <<>> THEN st
    ELSE LET x == Head(rows)
             other == IF direction = "incoming" THEN x.source ELSE x.target
             st2 == IF r.kind # NoKind /\ x.kind # r.kind THEN st
                    ELSE IF x.uuid \in st.visited_edges THEN st
                    ELSE [st EXCEPT
                            !.visited_edges = @ \cup {x.uuid},
                            !.edges = Append(@, Edge(x, direction)),
                            !.queue = IF other \notin st.visited_nodes
                                      THEN Append(@, [uuid |-> other,
                                                      distance |-> distance + 1])
                                      ELSE @]
         IN  expand(r, st2, Tail(rows), direction, distance)

\* The radius check of line 520 as the code makes it
beyond(r, distance) == r.radius # NoRadius /\ distance > r.radius

\* handle_explore, core.py lines 516-582: the loop
RECURSIVE bfs(_, _, _)
bfs(S, r, st) ==
    IF st.queue = <<>> \/ Cardinality(st.visited_nodes) >= r.limit THEN st
    ELSE LET head == Head(st.queue)
             id == MkId(NoPrefix, head.uuid)
         IN  IF beyond(r, head.distance) THEN st
             ELSE IF head.uuid \in st.visited_nodes
             THEN bfs(S, r, [st EXCEPT !.queue = Tail(@)])
             ELSE LET st1 == [st EXCEPT !.queue = Tail(@),
                                        !.visited_nodes = @ \cup {head.uuid}]
                      st2 == IF r.direction \in {"incoming", "both"}
                             THEN expand(r, st1, Stored(list_inbound(S, id, TRUE)),
                                         "incoming", head.distance)
                             ELSE st1
                      st3 == IF r.direction \in {"outgoing", "both"}
                             THEN expand(r, st2, Stored(list_outbound(S, id, TRUE)),
                                         "outgoing", head.distance)
                             ELSE st2
                  IN  bfs(S, r, st3)

\* handle_explore, core.py lines 505-514: the traversal from the anchor
traverse(S, r) ==
    bfs(S, r, [queue |-> <<[uuid |-> strip_prefix(r.anchor), distance |-> 0]>>,
               visited_nodes |-> {}, visited_edges |-> {}, edges |-> <<>>])

\* handle_explore, lines 503-582: the Entity store is acquired and the
\* graph traversed; the nodes visited wait for their details.
Traverse(w) ==
    /\ pc[w] = "running"
    /\ cur[w].handler = "handle_explore"
    /\ LET st == traverse(Store, cur[w].req)
           hd == [NewHandle("core", Store) EXCEPT !.todo = st.visited_nodes,
                                                  !.results = st.edges]
       IN  handles' = [handles EXCEPT ![w] = <<hd>>]
    /\ pc' = [pc EXCEPT ![w] = "exploring"]
    /\ UNCHANGED <<facts, relations, entities, nextUuid, cur, done, nextInv,
                   faults, others, today, streams, lock, threads, history>>

\* handle_explore, lines 586-607: the next visited node, in the set's
\* order, is looked up in the Entity store; one not found there has the
\* Fact store acquired for it, inside the Entity store's block.
Lookup(w) ==
    /\ pc[w] = "exploring"
    /\ Len(handles[w]) = 1
    /\ \E n \in handles[w][1].todo :
         LET hd == [handles[w][1] EXCEPT !.todo = @ \ {n}]
         IN  handles' = [handles EXCEPT ![w] =
                IF get_by_id(hd.work, MkId(NoPrefix, n)) # {}
                THEN <<[hd EXCEPT !.rows = @ \cup {add_core_prefix(n)}]>>
                ELSE <<hd, [NewHandle("soil", Store) EXCEPT !.made = n]>>]
    /\ UNCHANGED <<facts, relations, entities, nextUuid, pc, cur, done, nextInv,
                   faults, others, today, streams, lock, threads, history>>

\* handle_explore, lines 607-621: get_item, and the Fact store is released
SoilLookup(w) ==
    /\ pc[w] = "exploring"
    /\ Len(handles[w]) = 2
    /\ LET hd == handles[w][1]
           soil == handles[w][2]
           item == get_item(soil.work, MkId(NoPrefix, soil.made))
       IN  handles' = [handles EXCEPT ![w] =
              <<[hd EXCEPT !.rows = IF item # {}
                                    THEN @ \cup {add_soil_prefix(soil.made)}
                                    ELSE @]>>]
    /\ UNCHANGED <<facts, relations, entities, nextUuid, pc, cur, done, nextInv,
                   faults, others, today, streams, lock, threads, history>>

\* handle_explore, lines 623-627: the result, and the Entity store is
\* released
ExploreReturn(w) ==
    /\ pc[w] = "exploring"
    /\ Len(handles[w]) = 1
    /\ handles[w][1].todo = {}
    /\ Exit(w, handles[w][1], NoExc, NoExc)
    /\ UNCHANGED <<faults, nextUuid>>

\* test_relations_bundle.py lines 578-618 and 667-711: an outgoing
\* exploration of one hop, an unbounded one in both directions, and one
\* from a Fact with a limit of two.
ExploreRequests ==
    {Explore(add_core_prefix(1), "outgoing", MinRadius, ExploreLimit),
     Explore(add_core_prefix(1), "both", NoRadius, ExploreLimit),
     Explore(add_soil_prefix(3), "incoming", NoRadius, MinLimit + 1)}

\* The relations a graph is drawn from: a chain from entity 1 over
\* entity 2 to Fact 3, a relation closing the cycle, and one from 1 to 3
\* whose horizon has passed.
Chain ==
    {NewUserRelation(4, "explicit_link", add_core_prefix(1), add_core_prefix(2),
                     FirstDay, DefaultHorizonDays),
     NewUserRelation(5, "explicit_link", add_core_prefix(2), add_soil_prefix(3),
                     FirstDay, DefaultHorizonDays)}

Closing ==
    NewUserRelation(6, "explicit_link", add_soil_prefix(3), add_core_prefix(1),
                    FirstDay, DefaultHorizonDays)

Dead ==
    NewUserRelation(7, "explicit_link", add_core_prefix(1), add_soil_prefix(3),
                    FirstDay - DefaultHorizonDays - 1, DefaultHorizonDays)

InitExplore ==
    /\ entities = {NewEntity(1, "Artifact"), NewEntity(2, "Artifact")}
    /\ facts = {NewFact(3, "Note")}
    /\ user_relation \in {Chain, Chain \cup {Closing, Dead}}
    /\ today = FirstDay
    /\ relations = {}
    /\ frames = {}
    /\ nextUuid = 8
    /\ pc = [w \in Workers |-> "idle"]
    /\ cur = [w \in Workers |-> NoInvocation]
    /\ done = {}
    /\ nextInv = 1
    /\ faults = 0
    /\ probe = NoProbe
    /\ sse_manager = NoClients
    /\ streams = {}
    /\ AtRest

ReceiveExplore(w) ==
    /\ Free(w)
    /\ nextInv <= MaxInv
    /\ \E r \in ExploreRequests : Dispatch(w, r, 0)
    /\ UNCHANGED <<faults, others, apart>>

NextExplore ==
    \E w \in Workers :
        \/ ReceiveExplore(w)
        \/ Traverse(w)
        \/ Lookup(w)
        \/ SoilLookup(w)
        \/ ExploreReturn(w)
        \/ AuditSuccess(w)

SpecExplore == InitExplore /\ [][NextExplore]_vars

\* ------------------------------------------------------------------- track
\* The deepest hop limit tried
MaxDepth == 2

\* The derivation chains tried are longer than the deepest limit.
ChainLen == MaxDepth + 2

Track(target, depth) == [Plain("track", target) EXCEPT !.depth = depth]

\* build_tree, core.py lines 667-673: the depth limit is reached
depth_reached_never(depth_limit, current_depth) == FALSE

depth_reached(depth_limit, current_depth) ==
    depth_limit # NoDepth /\ current_depth >= depth_limit

\* build_tree: a node of the tree; one that was expanded carries its type.
\* A node has at most one source, so the tree is kept as the sequence of
\* its nodes from the target down.
TreeNode(u, expanded) == [id |-> add_core_prefix(u), expanded |-> expanded]

\* handle_track, core.py lines 655-665: the Entity store is acquired and
\* the target looked up; the tree starts at the target, depth 0.
TrackEnter(w) ==
    /\ pc[w] = "running"
    /\ cur[w].handler = "handle_track"
    /\ LET hd == NewHandle("core", Store)
           target_uuid == strip_prefix(cur[w].req.target)
       IN  IF get_by_id(Store, MkId(NoPrefix, target_uuid)) = {}
           THEN Exit(w, hd, "ResourceNotFound", "ResourceNotFound")
           ELSE /\ handles' = [handles EXCEPT ![w] =
                                  <<[hd EXCEPT !.made = target_uuid]>>]
                /\ pc' = [pc EXCEPT ![w] = "tracking"]
                /\ UNCHANGED <<facts, relations, entities, cur, done, nextInv,
                               others, today, streams, lock, threads, history>>
    /\ UNCHANGED <<faults, nextUuid>>

\* build_tree, core.py lines 665-718: one call, for the entity hd.made at
\* depth hd.calls with hd.seen visited.  A call that recurses leaves the
\* next call to be made; one that does not ends the recursion, and
\* handle_track returns the tree (lines 721-726).
TrackStep(w) ==
    /\ pc[w] = "tracking"
    /\ LET hd == handles[w][1]
           entity_uuid == hd.made
           current_depth == hd.calls
           found == get_by_id(hd.work, MkId(NoPrefix, entity_uuid))
           stub == [hd EXCEPT !.results = Append(@, TreeNode(entity_uuid, FALSE)),
                              !.result = add_core_prefix(strip_prefix(cur[w].req.target))]
       IN  IF depth_reached(cur[w].req.depth, current_depth)
           THEN Exit(w, stub, NoExc, NoExc)
           ELSE IF entity_uuid \in hd.seen
           THEN Exit(w, stub, NoExc, NoExc)
           ELSE IF found = {}
           THEN Exit(w, [stub EXCEPT !.seen = @ \cup {entity_uuid}], NoExc, NoExc)
           ELSE LET entity == CHOOSE e \in found : TRUE
                    hd2 == [hd EXCEPT
                              !.seen = @ \cup {entity_uuid},
                              !.results = Append(@, TreeNode(entity_uuid, TRUE)),
                              !.result = add_core_prefix(strip_prefix(cur[w].req.target))]
                IN  IF entity.derived_from = NilUuid
                    THEN Exit(w, hd2, NoExc, NoExc)
                    ELSE /\ handles' = [handles EXCEPT ![w] =
                                <<[hd2 EXCEPT !.made = entity.derived_from,
                                              !.calls = current_depth + 1]>>]
                         /\ UNCHANGED <<facts, relations, entities, pc, cur, done,
                                        nextInv, others, today, streams, lock,
                                        threads, history>>
    /\ UNCHANGED <<faults, nextUuid>>

\* test_track.py lines 158-190: a chain of Artifacts, each derived from the
\* one before; the first of them derived from nothing, from the last (a
\* cycle), from itself, or from an entity that is not stored.
Derived(first) ==
    {[NewEntity(u, "Artifact") EXCEPT
        !.derived_from = IF u = 1 THEN first ELSE u - 1] : u \in 1..ChainLen}

TrackRequests ==
    {Track(add_core_prefix(u), d) :
        u \in {ChainLen, ChainLen + 1}, d \in {NoDepth, MaxDepth}}

InitTrack ==
    /\ entities \in {Derived(first) : first \in {NilUuid, ChainLen, 1, ChainLen + 1}}
    /\ facts = {}
    /\ user_relation = {}
    /\ today = FirstDay
    /\ relations = {}
    /\ frames = {}
    /\ nextUuid = ChainLen + 2
    /\ pc = [w \in Workers |-> "idle"]
    /\ cur = [w \in Workers |-> NoInvocation]
    /\ done = {}
    /\ nextInv = 1
    /\ faults = 0
    /\ probe = NoProbe
    /\ sse_manager = NoClients
    /\ streams = {}
    /\ AtRest

ReceiveTrack(w) ==
    /\ Free(w)
    /\ nextInv <= MaxInv
    /\ \E r \in TrackRequests \ Tried : Dispatch(w, r, 0)
    /\ UNCHANGED <<faults, others, apart>>

NextTrack ==
    \E w \in Workers :
        \/ ReceiveTrack(w)
        \/ TrackEnter(w)
        \/ TrackStep(w)
        \/ AuditSuccess(w)
        \/ AuditError(w)

\* The workers are scheduled: while a handler or the wrapper has a step to
\* take, some step is taken.
SpecTrack == InitTrack /\ [][NextTrack]_vars /\ WF_vars(NextTrack)

\* ------------------------------------------------------- concurrent edits
\* Two edits of one entity that touch different fields: one sets a, the
\* other sets c and unsets b.
EditRequests ==
    {Edit(add_core_prefix(1), [k \in {"a"} |-> 2], {}),
     Edit(add_core_prefix(1), [k \in {"c"} |-> 3], {"b"})}

InitEdit == InitTxn

ReceiveEdit(w) ==
    /\ Free(w)
    /\ SoilFree(w)
    /\ nextInv <= MaxInv
    /\ \E r \in EditRequests \ Tried : Dispatch(w, r, 0)
    /\ UNCHANGED <<faults, others, apart>>

NextEdit ==
    \E w \in Workers :
        \/ ReceiveEdit(w)
        \/ Enter(w)
        \/ CallStore(w)
        \/ SoilFree(w) /\ AuditSuccess(w)
        \/ SoilFree(w) /\ AuditError(w)

SpecEdit == InitEdit /\ [][NextEdit]_vars

\* ----------------------------------------------------- concurrent commits
\* handle_commit_artifact, line 87: the Entity store is acquired and
\* commit_delta called.  Its writes wait for the store's write lock and
\* stay in the handle's transaction; a ConflictError leaves the block as
\* ValueError (lines 112-114).
CommitDelta(w) ==
    /\ pc[w] = "running"
    /\ cur[w].handler = "handle_commit_artifact"
    /\ LET hd == NewHandle("core", Store)
           out == commit_delta(Store, cur[w].req)
       IN  /\ out.writes # {} => ~WriteLocked(w, "core")
           /\ nextUuid' = out.S.next
           /\ IF out.exc = "ConflictError"
              THEN Exit(w, hd, "ValueError", "ConflictError")
              ELSE IF out.exc # NoExc THEN Exit(w, hd, out.exc, out.exc)
              ELSE /\ handles' = [handles EXCEPT ![w] =
                        <<[hd EXCEPT !.dirty = TRUE, !.work = out.S, !.calls = 1,
                                     !.facts = out.S.facts \ facts,
                                     !.writes = out.writes,
                                     !.result = out.result]>>]
                   /\ pc' = [pc EXCEPT ![w] = "committing"]
                   /\ UNCHANGED <<facts, relations, entities, cur, done, nextInv,
                                  others, today, streams, lock, threads, history>>
    /\ UNCHANGED faults

\* handle_commit_artifact, lines 96-105: the artifact is read back through
\* the handle and the artifact_delta event published, inside the block.
PublishDelta(w) ==
    /\ pc[w] = "committing"
    /\ handles[w][1].calls = 1
    /\ LET hd == handles[w][1]
           r == cur[w].req
           a == CHOOSE e \in get_by_id(hd.work, r.target) : TRUE
           pub == publish_artifact_delta(
                      sse_manager, r.target, a.hash,
                      IF "scope_uuid" \in DOMAIN a.data
                      THEN a.data["scope_uuid"] ELSE NoId)
       IN  /\ sse_manager' = pub.M
           /\ handles' = [handles EXCEPT ![w] = <<[hd EXCEPT !.calls = 2]>>]
    /\ UNCHANGED <<facts, relations, entities, nextUuid, pc, cur, done, nextInv,
                   faults, probe, frames, user_relation, today, streams, lock,
                   threads, history>>

\* handle_commit_artifact, line 109 and the end of the with-block: the
\* handle commits, or its commit fails and the transaction is rolled back.
CommitReturn(w) ==
    /\ pc[w] = "committing"
    /\ handles[w][1].calls = 2
    /\ \E inj \in StoreFaults :
        /\ inj # NoExc => faults < MaxFaults
        /\ faults' = IF inj # NoExc THEN faults + 1 ELSE faults
        /\ Exit(w, handles[w][1], inj, inj)
    /\ UNCHANGED nextUuid

\* Scenario S5 with the two commits concurrent: both carry the hash the
\* artifact has.
CommitRequests ==
    {Req("commit_artifact", FALSE, "", add_core_prefix(1), 0, o, "none") :
        o \in {"ok", "also"}}

\* An Artifact and one subscriber to every global event.
InitCommit ==
    /\ entities = {NewEntity(1, "Artifact")}
    /\ facts = {}
    /\ relations = {}
    /\ frames = {}
    /\ nextUuid = 2
    /\ pc = [w \in Workers |-> "idle"]
    /\ cur = [w \in Workers |-> NoInvocation]
    /\ done = {}
    /\ nextInv = 1
    /\ faults = 0
    /\ probe = NoProbe
    /\ user_relation = {}
    /\ today = FirstDay
    /\ sse_manager = register(NoClients, "usr_b", {})
    /\ streams = {}
    /\ AtRest

ReceiveCommit(w) ==
    /\ Free(w)
    /\ nextInv <= MaxInv
    /\ \E r \in CommitRequests \ Tried : Dispatch(w, r, 0)
    /\ UNCHANGED <<faults, others, apart>>

NextCommit ==
    \E w \in Workers :
        \/ ReceiveCommit(w)
        \/ CommitDelta(w)
        \/ PublishDelta(w)
        \/ CommitReturn(w)
        \/ AuditSuccess(w)
        \/ AuditError(w)

SpecCommit == InitCommit /\ [][NextCommit]_vars

\* ------------------------------------------------------------- dispatching
\* Every op of the handler table and of the schema table, and three that
\* are in neither.
AllOps ==
    DOMAIN HANDLERS \cup DOMAIN request_schemas
        \cup {"register", "rejoin", "not_a_real_verb"}

\* Request bodies put to the dispatcher: each op, with its required fields
\* present or not, a target with and without the soil_ prefix, and a
\* target_type of entity or fact.
VerbRequests ==
    {[Req(op, FALSE, "Note", MkId(p, NilUuid), 0, "+1:^a", "none")
        EXCEPT !.required = q, !.target_type = tt] :
        op \in AllOps \cup {MissingOp}, p \in {"soil_", NoPrefix},
        q \in BOOLEAN, tt \in {"entity", "fact"}}

InitDispatch ==
    /\ facts = {}
    /\ relations = {}
    /\ entities = {}
    /\ nextUuid = 1
    /\ pc = [w \in Workers |-> "idle"]
    /\ cur = [w \in Workers |-> NoInvocation]
    /\ done = {}
    /\ nextInv = 1
    /\ faults = 0
    /\ Quiet
    /\ frames = {}
    /\ probe \in {[req |-> r, handler |-> NoHandler, outcome |-> "received",
                     count |-> 0] :
                    r \in VerbRequests}

\* semantic_api, lines 197-234: look the handler up, validate the request
\* against the op's schema, and call the handler.
Route ==
    /\ probe.outcome = "received"
    /\ probe' = [probe EXCEPT
                    !.handler = IF probe.req.op = MissingOp THEN NoHandler
                                ELSE get_handler(probe.req),
                    !.outcome = IF EnvelopeError(probe.req) = NoExc
                                THEN "reached_handler"
                                ELSE EnvelopeError(probe.req)]
    /\ UNCHANGED <<facts, relations, entities, nextUuid, pc, cur, done, nextInv,
                   faults, frames, user_relation, sse_manager, apart>>

SpecDispatch == InitDispatch /\ [][Route]_vars

\* ------------------------------------------------------------ audit trail
\* The facts and relations a reader of the Fact store finds for an Action.
ActionFacts(a) == {f \in facts : f.uuid = a /\ f.type = "Action"}

ResultsOf(a) == {x \in relations : x.kind = "result_of" /\ x.target.raw = a}

ResultFacts(x) == {f \in facts : f.uuid = x.source.raw /\ f.type = "ActionResult"}

LinksFrom(f) == {x \in relations : x.kind = "result_of" /\ x.source.raw = f.uuid}

\* The facts the wrapper wrote: an Action carries a request id, an
\* ActionResult carries a status.
AuditResults == {f \in facts : f.type = "ActionResult" /\ f.status # "none"}

Audited(d) == d.dispatched /\ d.audited

\* C1: the Action of an audited invocation is committed before the handler's
\* first step and stays visible; while the handler has not yet returned or
\* raised no ActionResult is linked to that Action, so a reader can see the
\* Action alone; and every ActionResult the wrapper wrote is linked to an
\* Action that is visible.
C1_ActionBeforeHandlerResultAfter ==
    /\ \A w \in Workers :
        (pc[w] # "idle" /\ cur[w].audited) => ActionFacts(cur[w].action) # {}
    /\ \A w \in Workers :
        (pc[w] \in {"running", "returned", "raised"} /\ cur[w].audited
            /\ ~cur[w].auditFailed)
            => ResultsOf(cur[w].action) = {}
    /\ \A f \in AuditResults :
        \E x \in LinksFrom(f) : ActionFacts(x.target.raw) # {}

\* C1 witness: a handler is in progress with its Action visible and no
\* ActionResult, while another invocation has finished and has its result.
C1_Witness ==
    \E w \in Workers :
        /\ pc[w] = "running" /\ cur[w].audited
        /\ ActionFacts(cur[w].action) # {}
        /\ ResultsOf(cur[w].action) = {}
        /\ \E d \in done : Audited(d) /\ ResultsOf(d.action) # {}

\* C2: in a run whose audit writes succeed, every non-bypassed invocation
\* whose handler returned has exactly one Action fact, carrying its own
\* request id, and exactly one result_of relation, whose source is exactly
\* one ActionResult with status success; request ids are distinct across
\* invocations; no Action is the target of more than one result_of.
C2_OneActionOneSuccessResult ==
    /\ \A d \in done :
        (Audited(d) /\ d.hexc = NoExc) =>
            /\ Cardinality({f \in facts : f.type = "Action" /\ f.req = d.rid}) = 1
            /\ \A f \in facts : (f.type = "Action" /\ f.req = d.rid) => f.uuid = d.action
            /\ Cardinality(ResultsOf(d.action)) = 1
            /\ \A x \in ResultsOf(d.action) :
                /\ Cardinality(ResultFacts(x)) = 1
                /\ \A f \in ResultFacts(x) : f.status = "success"
            /\ d.status = 200
    /\ \A d, e \in done : (Audited(d) /\ Audited(e) /\ d.rid = e.rid) => d.inv = e.inv
    /\ \A a \in facts : a.type = "Action" => Cardinality(ResultsOf(a.uuid)) <= 1

\* C2 witness: two audited invocations overlapped (the one whose Action is
\* older got its ActionResult later) and both succeeded.
C2_Witness ==
    \E d, e \in done :
        /\ Audited(d) /\ Audited(e) /\ d.hexc = NoExc /\ e.hexc = NoExc
        /\ d.action < e.action
        /\ \E x \in ResultsOf(d.action), y \in ResultsOf(e.action) : x.uuid > y.uuid

\* The error.code the taxonomy prescribes for each exception class.
TaxonomyCode(e) ==
    CASE e = "MGValidationError" -> "validation_error"
      [] e = "ResourceNotFound" -> "not_found"
      [] e = "LockConflictError" -> "lock_conflict"
      [] e = "PermissionDenied" -> "permission_denied"
      [] OTHER -> "internal_error"

\* C3: in a run whose audit writes succeed, an audited invocation whose
\* handler raised has exactly one result_of relation, from exactly one
\* ActionResult with status error whose error.code is the taxonomy's code
\* for the exception class, and the caller receives the handler's exception.
C3_OneErrorResultAndReraise ==
    \A d \in done :
        (Audited(d) /\ d.hexc # NoExc) =>
            /\ Cardinality(ResultsOf(d.action)) = 1
            /\ \A x \in ResultsOf(d.action) :
                /\ Cardinality(ResultFacts(x)) = 1
                /\ \A f \in ResultFacts(x) :
                    f.status = "error" /\ f.code = TaxonomyCode(d.hexc)
            /\ d.raised = d.hexc

\* C3 witness: a handler raised LockConflictError and the error ActionResult
\* with code lock_conflict is linked to its Action.
C3_Witness ==
    \E d \in done :
        /\ Audited(d) /\ d.hexc = "LockConflictError" /\ d.raised = d.hexc
        /\ \E x \in ResultsOf(d.action) :
            \E f \in ResultFacts(x) : f.status = "error" /\ f.code = "lock_conflict"

AuditKinds == {"Action", "ActionResult", "result_of"}

AuditWritesOf(d) == {x \in d.writes : x.kind \in AuditKinds}

HandlerWritesOf(d) == {x \in d.writes : x.kind \notin AuditKinds}

\* C4: when the handler raised and the write of the error ActionResult
\* fails, the caller still receives the handler's own exception with its own
\* response, the failed transaction leaves neither fact nor relation behind,
\* and no ActionResult the wrapper wrote is ever without its result_of.
C4_AuditErrorSwallowed ==
    /\ \A d \in done :
        (Audited(d) /\ d.hexc # NoExc /\ d.auditFailed) =>
            /\ d.raised = d.hexc
            /\ d.status = Status(d.hexc)
            /\ AuditWritesOf(d) = {Write("Action", d.action)}
            /\ ResultsOf(d.action) = {}
    /\ \A f \in AuditResults : Cardinality(LinksFrom(f)) = 1

\* C4 witness: a handler raised ResourceNotFound, the error audit write
\* failed, and the caller was answered with the handler's exception.
C4_Witness ==
    \E d \in done :
        /\ Audited(d) /\ d.auditFailed
        /\ d.hexc = "ResourceNotFound" /\ d.raised = "ResourceNotFound"
        /\ d.status = 404
        /\ ResultsOf(d.action) = {}

\* The audit records in the Fact store, by identifier.
AuditTrail ==
    [actions |-> {f.uuid : f \in {g \in facts : g.type = "Action" /\ g.req # NilUuid}},
     results |-> {f.uuid : f \in AuditResults},
     links |-> {x.uuid : x \in {y \in relations : y.kind = "result_of"}}]

BypassedStep(w) ==
    \/ pc[w] = "idle" /\ pc'[w] = "running" /\ cur'[w].req.bypass
    \/ pc[w] = "running" /\ cur[w].req.bypass /\ pc'[w] # "running"

C5_Answers ==
    /\ \A d \in done :
        (d.dispatched /\ d.req.bypass) =>
            /\ ~d.audited
            /\ AuditWritesOf(d) = {}
            /\ d.raised = d.hexc
            /\ d.status = Status(d.hexc)
    /\ \A d \in done :
        (d.dispatched /\ ~d.req.bypass) =>
            /\ d.audited
            /\ Write("Action", d.action) \in d.writes
            /\ ActionFacts(d.action) # {}

\* C5: no step of an invocation with bypass_semantic_api = true adds or
\* removes an Action, ActionResult or result_of record of the audit trail,
\* whether its handler returns or raises, and its result or exception
\* reaches the caller as the handler produced it; every dispatched
\* invocation without the flag has its Action written.
C5_BypassWritesNoAudit == []C5_Answers /\ [][\A w \in Workers :
    BypassedStep(w) => AuditTrail' = AuditTrail]_vars

\* C5 witness: one bypassed invocation returned, another raised, and the
\* Fact store holds no audit record at all.
C5_Witness ==
    /\ \E d, e \in done :
        /\ d.dispatched /\ d.req.bypass /\ d.hexc = NoExc /\ d.status = 200
        /\ e.dispatched /\ e.req.bypass /\ e.hexc # NoExc /\ e.raised = e.hexc
    /\ AuditTrail = [actions |-> {}, results |-> {}, links |-> {}]

\* C6: in every reachable state of the Fact store, every fact of type
\* ActionResult is the source of exactly one result_of relation, and the
\* target of that relation is an existing Action fact.
C6_EveryResultLinked ==
    \A f \in facts :
        f.type = "ActionResult" =>
            /\ Cardinality(LinksFrom(f)) = 1
            /\ \A x \in LinksFrom(f) : ActionFacts(x.target.raw) # {}

\* The requests that fail as validation errors for the listed reasons: the
\* envelope is rejected (schema, missing or unknown op, empty unset), the
\* type is not a baseline type, or the ops string is bad.
ValidationFailure(d) ==
    /\ d.status = 400
    /\ \/ ~d.dispatched
       \/ d.req.op \in {"create", "add"} /\ d.hexc = "ValueError"
       \/ d.req.op = "commit_artifact" /\ d.req.ops = "bad" /\ d.cause = "ValueError"

\* C7 as stated: a request that fails with a validation error changes
\* neither the Entity store nor the Fact store.
C7_NoStateChange ==
    \A d \in done : ValidationFailure(d) => d.writes = {}

\* C7 amended: a request that fails with a validation error creates and
\* changes no entity, fact or relation of its own; rejected before dispatch
\* it writes nothing at all, and rejected by an audited handler it leaves
\* exactly its audit trail (Action, error ActionResult, result_of) in the
\* Fact store.  No entity or fact of a non-baseline type ever exists.
C7_OnlyAuditTrailWritten ==
    /\ \A d \in done :
        ValidationFailure(d) =>
            /\ HandlerWritesOf(d) = {}
            /\ IF Audited(d)
               THEN /\ Cardinality(d.writes) = 3
                    /\ {x.kind : x \in d.writes} = AuditKinds
                    /\ Write("Action", d.action) \in d.writes
                    /\ \A x \in ResultsOf(d.action) :
                        /\ Write("result_of", x.uuid) \in d.writes
                        /\ Write("ActionResult", x.source.raw) \in d.writes
               ELSE d.writes = {}
    /\ \A e \in entities : e.type \in BASELINE_ENTITY_TYPES
    /\ \A f \in facts :
        f.type \in BASELINE_ITEM_TYPES \cup {"Action", "ActionResult", "ArtifactDelta"}

\* C7 witness: one request was rejected before dispatch and wrote nothing,
\* another was rejected by its handler for a non-baseline type and left its
\* three audit records.
C7_Witness ==
    \E d, e \in done :
        /\ ValidationFailure(d) /\ ~d.dispatched /\ d.writes = {}
        /\ ValidationFailure(e) /\ Audited(e) /\ e.req.op = "create"
        /\ Cardinality(e.writes) = 3

NonBaseline(r) ==
    \/ r.op = "add" /\ r.type \notin BASELINE_ITEM_TYPES
    \/ r.op = "create" /\ r.type \notin BASELINE_ENTITY_TYPES

\* C8: an add or create whose type is not a baseline type is answered as a
\* client error, its audit ActionResult carries error.code validation_error,
\* and no fact or entity is created.
C8_InvalidTypeIsValidationError ==
    \A d \in done :
        (Audited(d) /\ NonBaseline(d.req)) =>
            /\ d.status = 400
            /\ HandlerWritesOf(d) = {}
            /\ ResultsOf(d.action) # {}
            /\ \A x \in ResultsOf(d.action) :
                \A f \in ResultFacts(x) :
                    f.status = "error" /\ f.code = "validation_error"

\* C9: failures are answered by class: validation 400, not found 404, lock
\* conflict 409, internal 500; in particular a commit_artifact whose
\* based_on_hash does not match, and any handler failure with
\* LockConflictError, is answered 409.
C9_ResponseClasses ==
    \A d \in done :
        d.dispatched =>
            /\ d.cause = "ConflictError" => d.status = 409
            /\ d.hexc = "LockConflictError" => d.status = 409
            /\ d.hexc = "ResourceNotFound" => d.status = 404
            /\ d.hexc = "MGValidationError" => d.status = 400
            /\ d.hexc = "RuntimeError" => d.status = 500

\* What a request on the current stores is answered with.
Outcome(r) ==
    LET out == RunHandler(get_handler(r), Store, r, NoExc)
    IN  [status |-> Status(out.exc), result |-> out.result]

\* C10: an operation given an identifier with its prefix and the same
\* operation given the identifier without it have the same outcome, and
\* identifiers in results carry their prefix; in particular get on an
\* existing fact succeeds with and without soil_.
C10_PrefixInsensitive ==
    /\ \A u \in UserFactIds :
        /\ Outcome(Plain("get", MkId(NoPrefix, u))) = Outcome(Plain("get", MkId("soil_", u)))
        /\ Outcome(Plain("amend", MkId(NoPrefix, u))) = Outcome(Plain("amend", MkId("soil_", u)))
    /\ \A u \in EntityIds :
        /\ Outcome(Plain("get", MkId(NoPrefix, u))) = Outcome(Plain("get", MkId("core_", u)))
        /\ Outcome(Plain("edit", MkId(NoPrefix, u))) = Outcome(Plain("edit", MkId("core_", u)))
    /\ \A d \in done :
        (d.dispatched /\ d.req.op = "get" /\ d.req.target.raw \in UserFactIds) =>
            d.status = 200 /\ d.result = add_soil_prefix(d.req.target.raw)
    /\ \A d \in done : d.result # NoId => d.result.pfx # NoPrefix

\* The verbs of the bundle table.
TableVerbs ==
    {"create", "edit", "forget", "get", "query", "add", "amend", "link",
     "unlink", "edit_relation", "get_relation", "query_relation", "explore",
     "track", "enter", "leave", "focus", "commit_artifact",
     "get_artifact_at_commit", "diff_commits", "fold", "get_conversation",
     "search"}

\* C11: a well-formed request carrying a verb of the bundle table passes
\* envelope validation and reaches the handler registered for that verb;
\* an op outside the table is rejected as unsupported.
C11_TableVerbsDispatchable ==
    probe.outcome \notin {"none", "received"} =>
        /\ (probe.req.op \in TableVerbs /\ probe.req.required) =>
            /\ probe.outcome = "reached_handler"
            /\ probe.handler # NoHandler
            /\ probe.req.op \in DOMAIN HANDLERS => probe.handler = HANDLERS[probe.req.op]
        /\ probe.req.op \notin TableVerbs \cup {MissingOp} =>
            probe.outcome = "unsupported_operation"

\* ------------------------------------------------------------------- facts
Amends == {d \in done : d.dispatched /\ d.req.op = "amend"}

SupersedesOf(u) == {x \in relations : x.kind = "supersedes" /\ x.target.raw = u}

\* C12: a successful amend of u1 leaves a new fact u2 # u1 of u1's type,
\* u1.superseded_by = u2 and exactly one supersedes relation from u2 to u1;
\* an amend of an existing fact that does not succeed fails as a validation
\* error and writes nothing; and, amends interleaving as they may, every
\* fact is superseded by at most one fact and is the target of at most one
\* supersedes relation.
C12_AmendSupersedesOnce ==
    /\ \A d \in Amends :
        d.hexc = NoExc =>
            LET u1 == d.req.target.raw
                u2 == d.result.raw
            IN  /\ u2 # u1
                /\ \E o \in facts, n \in facts :
                    /\ o.uuid = u1 /\ n.uuid = u2
                    /\ n.type = o.type
                    /\ o.superseded_by = u2
                /\ Cardinality({x \in SupersedesOf(u1) : x.source.raw = u2}) = 1
    /\ \A d \in Amends :
        (d.hexc # NoExc /\ d.req.target.raw \in FactIds) =>
            /\ d.hexc = "MGValidationError"
            /\ d.status = 400
            /\ HandlerWritesOf(d) = {}
            /\ d.audited => \E f \in AuditResults :
                    /\ f.code = "validation_error"
                    /\ \E x \in LinksFrom(f) : x.target.raw = d.action
    /\ \A f \in facts :
        /\ Cardinality({g \in facts : g.uuid = f.uuid}) = 1
        /\ Cardinality(SupersedesOf(f.uuid)) <= 1
        /\ f.superseded_by # NilUuid <=>
                \E x \in SupersedesOf(f.uuid) : x.source.raw = f.superseded_by

\* C12 witness: two amends of one fact both read it while it was live; one
\* succeeded and the other failed as a validation error.
C12_Witness ==
    \E d \in Amends, e \in Amends :
        /\ d.req.target.raw = e.req.target.raw
        /\ d.hexc = NoExc
        /\ e.hexc = "MGValidationError"
        /\ \E f \in e.seen : f.superseded_by = NilUuid

\* C13: in every step, every stored fact is still stored, with every
\* attribute other than superseded_by as it was, and a superseded_by that
\* was set is as it was.
C13_FactsImmutable ==
    [][\A f \in facts :
        \E g \in facts' :
            /\ [g EXCEPT !.superseded_by = NilUuid] = [f EXCEPT !.superseded_by = NilUuid]
            /\ f.superseded_by # NilUuid => g.superseded_by = f.superseded_by]_vars

\* C13 witness: a Note was amended and an add, get, query or search was
\* answered in the same run.
C13_Witness ==
    /\ \E f \in facts : f.type = "Note" /\ f.superseded_by # NilUuid
    /\ \E d \in Amends : d.hexc = NoExc
    /\ \E d \in done : d.dispatched /\ d.req.op \in {"add", "get", "query", "search"}

\* ---------------------------------------------------------------- entities
DataKeys == {"a", "b", "c"}

\* Worker w's handler, handle_edit on entity u, ends in this step.
EditEnds(w, u) ==
    /\ pc[w] = "running"
    /\ pc'[w] # "running"
    /\ cur[w].handler = "handle_edit"
    /\ cur[w].req.target.raw = u

\* e2 is the version that an edit with the fields set and unset makes of e.
EditedAs(e, e2, set, unset) ==
    /\ e2.version = e.version + 1
    /\ e2.previous_hash = e.hash
    /\ e2.hash # e.hash
    /\ e2.type = e.type
    /\ \A k \in DataKeys :
        IF k \in unset THEN k \notin DOMAIN e2.data
        ELSE IF k \in DOMAIN set THEN k \in DOMAIN e2.data /\ e2.data[k] = set[k]
        ELSE /\ k \in DOMAIN e2.data <=> k \in DOMAIN e.data
             /\ k \in DOMAIN e.data => e2.data[k] = e.data[k]

\* C14: an entity enters the store with version 1 and no previous_hash; an
\* edit that succeeds makes the next version of its target, with version
\* one higher, previous_hash the hash of the version replaced, and data the
\* old data with set applied and then unset, other keys as they were; no
\* other step changes version, hash, previous_hash or data; and an edit
\* that fails leaves the Entity store as it was.
C14_EditVersions ==
    [][/\ \A e2 \in entities' :
            e2.uuid \notin EntityIds => e2.version = 1 /\ e2.previous_hash = NoHash
       /\ \A e \in entities :
            \E e2 \in entities' :
                /\ e2.uuid = e.uuid
                /\ \/ [e2 EXCEPT !.superseded_by = NilUuid] = [e EXCEPT !.superseded_by = NilUuid]
                   \/ \E w \in Workers :
                        /\ EditEnds(w, e.uuid)
                        /\ pc'[w] = "returned"
                        /\ EditedAs(e, e2, cur[w].req.set, cur[w].req.unset_fields)
                /\ \A w \in Workers :
                    (EditEnds(w, e.uuid) /\ pc'[w] = "returned") => e2.version = e.version + 1
       /\ \A w \in Workers :
            (pc[w] = "running" /\ cur[w].handler = "handle_edit" /\ pc'[w] = "raised")
                => entities' = entities
       /\ \A d \in done' \ done :
            (d.req.op = "edit" /\ d.status # 200) => entities' = entities]_vars

\* C14 witness: an entity has reached its third version or a later one by
\* an edit that both set and unset fields, and another edit has failed.
C14_Witness ==
    /\ \E e \in entities : e.version >= 3 /\ e.previous_hash = e.hash - 1
    /\ \E d \in done :
        /\ d.req.op = "edit" /\ d.status = 200
        /\ d.req.set # NoData /\ d.req.unset_fields # {}
    /\ \E d \in done : d.req.op = "edit" /\ d.status # 200

Forgets == {d \in done : d.dispatched /\ d.req.op = "forget"}

Tombstones == {e \in entities : e.type = "Tombstone"}

\* What the forgotten entities look like to get and to the default query.
C15_Forgotten ==
    /\ \A d \in Forgets :
        d.hexc = NoExc =>
            LET u == d.req.target.raw
            IN  /\ \E e \in entities, t \in Tombstones :
                    e.uuid = u /\ e.superseded_by = t.uuid /\ t.uuid # u
                /\ Outcome(Plain("get", MkId("core_", u))) =
                        [status |-> 200, result |-> add_core_prefix(u)]
                /\ add_core_prefix(u) \notin handle_query(Store, Plain("query", NoId)).rows
    /\ \A d \in Forgets :
        d.hexc # NoExc =>
            /\ d.req.target.raw \notin EntityIds
            /\ d.hexc = "ResourceNotFound"
            /\ d.status = 404
            /\ HandlerWritesOf(d) = {}
            /\ d.audited => \E f \in AuditResults :
                    /\ f.code = "not_found"
                    /\ \E x \in LinksFrom(f) : x.target.raw = d.action

\* Worker w's handler, handle_forget, ends in this step.
ForgetEnds(w) ==
    /\ pc[w] = "running"
    /\ pc'[w] # "running"
    /\ cur[w].handler = "handle_forget"

\* C15: a forget that succeeds adds exactly one entity, a Tombstone with a
\* fresh uuid, and sets the original's superseded_by to it, the original's
\* other attributes staying as they were; a forget that fails is a not_found
\* on an entity that does not exist and adds no entity; and from then on
\* get returns the forgotten entity and the default query does not list it.
C15_ForgetMintsTombstone ==
    /\ []C15_Forgotten
    /\ [][\A w \in Workers :
            ForgetEnds(w) =>
                IF pc'[w] = "returned"
                THEN \E e \in entities, t \in entities' :
                        /\ e.uuid = cur[w].req.target.raw
                        /\ t.uuid \notin EntityIds
                        /\ t.type = "Tombstone"
                        /\ entities' = (entities \ {e})
                                \cup {t, [e EXCEPT !.superseded_by = t.uuid]}
                ELSE entities' = entities /\ cur'[w].hexc = "ResourceNotFound"]_vars

\* C15 witness: an entity was forgotten and is superseded by a Tombstone,
\* and a forget of an entity that does not exist was answered 404.
C15_Witness ==
    /\ \E d \in Forgets, e \in entities, t \in Tombstones :
        /\ d.hexc = NoExc /\ e.uuid = d.req.target.raw
        /\ e.type = "Entity" /\ e.superseded_by = t.uuid
    /\ \E d \in Forgets : d.status = 404 /\ Tombstones # {}

\* ------------------------------------------------------------------ scopes
ScopeVerbs == {"enter", "leave", "focus"}

ScopeAnswers == {d \in done : d.dispatched /\ d.req.op \in ScopeVerbs}

\* The frame an operator's scope verbs work on.
FrameOf(actor) == {f \in frames : f.owner = actor /\ f.owner_type = "operator"}

\* Worker w's handler for scope verb op ends in this step.
ScopeEnds(w, op) ==
    /\ pc[w] = "running"
    /\ pc'[w] # "running"
    /\ cur[w].req.op = op

\* The scope worker w's request names, as the store keeps it.
Asked(w) == MkId(NoPrefix, cur[w].req.scope.raw)

\* C16: the primary_scope of every frame is null or one of its
\* active_scopes, and no scope occurs twice in active_scopes.
C16_PrimaryAmongActive ==
    \A f \in frames :
        /\ f.primary_scope = NoId \/ f.primary_scope \in Range(f.active_scopes)
        /\ \A i \in DOMAIN f.active_scopes, j \in DOMAIN f.active_scopes :
            i # j => f.active_scopes[i].raw # f.active_scopes[j].raw

\* C16 witness: an operator has two active scopes, one of them primary,
\* after one scope verb that succeeded and one that failed.
C16_Witness ==
    /\ \E f \in FrameOf("usr_a") :
        Len(f.active_scopes) = 2 /\ f.primary_scope # NoId
    /\ \E d \in ScopeAnswers : d.req.actor = "usr_a" /\ d.status = 200
    /\ \E d \in ScopeAnswers : d.req.actor = "usr_a" /\ d.status # 200

\* The frame of worker w's actor after the step.
FrameAfter(w) == {f \in frames' : f.owner = cur[w].req.actor /\ f.owner_type = "operator"}

\* The scopes and the primary scope of worker w's actor before the step:
\* none when the actor has no frame yet.
ScopesBefore(w) ==
    IF FrameOf(cur[w].req.actor) = {} THEN NewFrame(NilUuid, cur[w].req.actor, "operator")
    ELSE CHOOSE f \in FrameOf(cur[w].req.actor) : TRUE

\* C17: an enter that succeeds appends the scope to active_scopes; when
\* active_scopes was empty the scope becomes primary_scope, and when it was
\* not empty primary_scope stays as it was, null included.
C17_EnterKeepsPrimary ==
    [][\A w \in Workers :
        (ScopeEnds(w, "enter") /\ pc'[w] = "returned") =>
            \E f2 \in FrameAfter(w) :
                /\ f2.active_scopes = Append(ScopesBefore(w).active_scopes, Asked(w))
                /\ f2.primary_scope =
                        IF ScopesBefore(w).active_scopes = <<>> THEN Asked(w)
                        ELSE ScopesBefore(w).primary_scope]_vars


\* C18: a leave that succeeds takes exactly the scope asked for out of the
\* actor's active_scopes, the others keeping their order, and clears
\* primary_scope when that scope was primary, promoting no other scope; a
\* focus that succeeds sets primary_scope to the scope asked for, which is
\* active, and leaves active_scopes as it was; no other frame changes.
C18_LeaveAndFocus ==
    [][\A w \in Workers :
        /\ (ScopeEnds(w, "leave") /\ pc'[w] = "returned") =>
            \E f \in FrameOf(cur[w].req.actor) :
                /\ Asked(w) \in Range(f.active_scopes)
                /\ frames' = (frames \ {f}) \cup
                     {[f EXCEPT !.active_scopes = Without(@, Asked(w)),
                                !.primary_scope = IF @ = Asked(w) THEN NoId ELSE @]}
        /\ (ScopeEnds(w, "focus") /\ pc'[w] = "returned") =>
            \E f \in FrameOf(cur[w].req.actor) :
                /\ Asked(w) \in Range(f.active_scopes)
                /\ frames' = (frames \ {f}) \cup {[f EXCEPT !.primary_scope = Asked(w)]}]_vars

\* C18 witness: a focus moved the primary scope and a leave of the primary
\* scope left the operator with an active scope and no primary scope.
C18_Witness ==
    /\ \E d \in ScopeAnswers : d.req.op = "focus" /\ d.status = 200
    /\ \E d \in ScopeAnswers : d.req.op = "leave" /\ d.status = 200
    /\ \E f \in FrameOf("usr_a") : f.active_scopes # <<>> /\ f.primary_scope = NoId

\* Worker w's scope verb cannot succeed on the frames as they are.
MustFail(w) ==
    LET own == FrameOf(cur[w].req.actor)
        active == UNION {Range(f.active_scopes) : f \in own}
    IN  CASE cur[w].req.op = "enter" -> Asked(w) \in active
          [] cur[w].req.op \in {"leave", "focus"} -> own = {} \/ Asked(w) \notin active
          [] OTHER -> FALSE

\* C19: an enter of an active scope, a leave or focus of a scope that is not
\* active, and a leave or focus by an operator who has no frame all fail; a
\* scope verb that fails leaves every frame as it was and creates none; a
\* focus on the primary scope changes nothing; and enter_scope, leave_scope
\* and focus_scope called on a frame that is not an operator's fail and
\* change nothing.
C19_FailuresChangeNothing ==
    [][/\ \A w \in Workers :
            \A op \in ScopeVerbs :
                ScopeEnds(w, op) =>
                    /\ MustFail(w) => pc'[w] = "raised"
                    /\ pc'[w] = "raised" => frames' = frames
                    /\ (op = "focus" /\ \E f \in FrameOf(cur[w].req.actor) :
                                            f.primary_scope = Asked(w))
                            => (pc'[w] = "returned" /\ frames' = frames)
       /\ probe' # probe => (probe'.outcome = "raised" /\ frames' = frames)]_vars

\* C19 witness: a leave or focus by an operator without a frame was
\* refused, the operator still has no frame, and a scope call on the
\* agent's frame was refused.
C19_Witness ==
    /\ \E d \in ScopeAnswers :
        /\ d.req.op \in {"leave", "focus"}
        /\ d.status = 400
        /\ FrameOf(d.req.actor) = {}
    /\ probe.outcome = "raised"
    /\ \E f \in frames : f.owner = probe.req.actor /\ f.owner_type = "agent"

Visited(fs) == CHOOSE f \in fs : f.owner = "usr_a"

Distinct(q) == \A i, j \in DOMAIN q : q[i] = q[j] => i = j

IsPrefix(p, q) == Len(p) <= Len(q) /\ SubSeq(q, 1, Len(p)) = p

InRange(n) == CONTEXT_SIZE_MIN <= n /\ n <= CONTEXT_SIZE_MAX

\* What every call of update_containers does whatever its context_size: in
\* range, the visited container is at index 0, no container is listed
\* twice, and the others are the most recently visited of those listed
\* before, in the order they had; out of range, the call fails and the
\* containers are as they were.
MovesToFront ==
    LET old == Visited(frames).containers
        new == Visited(frames').containers
        v   == probe'.req.target
    IN  IF InRange(probe'.req.context_size)
        THEN /\ probe'.outcome = "returned"
             /\ Len(new) > 0 /\ new[1] = v
             /\ Distinct(new)
             /\ IsPrefix(Without(new, v), Without(old, v))
        ELSE /\ probe'.outcome = "raised"
             /\ new = old

\* C21 as stated: after every call of update_containers the containers are
\* no more than the context_size of that call, pairwise distinct, with the
\* visited one at index 0, the others in their former order and only the
\* least recently visited dropped; a call with a context_size out of range
\* fails and changes nothing.
C21_BoundedByLastCall ==
    [][/\ MovesToFront
       /\ InRange(probe'.req.context_size)
            => Len(Visited(frames').containers) <= probe'.req.context_size]_vars

\* The relation a direct store call was made on, as the table holds it.
Called(table) == {x \in table : x.uuid = strip_prefix(probe'.req.target)}

\* C22: update_time_horizon, called on a day not before the relation's
\* last access, adds to time_horizon the whole part of 1.2 times the days
\* since the last access, sets last_access_at to today and changes
\* nothing else; time_horizon does not decrease, and a second call on the
\* same day adds 0.
C22_HorizonGrowth ==
    [][(/\ probe'.req.op = "update_time_horizon"
        /\ probe'.outcome = "returned"
        /\ today' = today)
        => \E x \in Called(user_relation), x2 \in Called(user_relation') :
            LET delta == today - x.last_access_at
                grown == x2.time_horizon - x.time_horizon
                c     == SAFETY_COEFFICIENT
            IN  /\ delta >= 0
                /\ grown * c.den <= delta * c.num
                /\ delta * c.num < (grown + 1) * c.den
                /\ grown >= 0
                /\ delta = 0 => grown = 0
                /\ x2.last_access_at = today
                /\ x2 = [x EXCEPT !.time_horizon = x2.time_horizon,
                                  !.last_access_at = today]
                /\ user_relation' \ {x2} = user_relation \ {x}]_vars

\* update_time_horizon was called on a relation not accessed for so long
\* that its horizon grew by more days than had passed.
C22_Witness ==
    /\ probe.req.op = "update_time_horizon"
    /\ probe.outcome = "returned"
    /\ \E x \in user_relation :
        /\ x.uuid = strip_prefix(probe.req.target)
        /\ ~x.expired
        /\ x.last_access_at = today
        /\ x.time_horizon - x.created_at
                > DefaultHorizonDays + (today - x.created_at)

\* The user_relation table and the day after a step.
After == [user_relation |-> user_relation', today |-> today']

\* C23: expire sets time_horizon to today - 1, and a relation once expired
\* is never alive again, whatever update_time_horizon, edit_relation or
\* expire follow; it stays in the table and is listed when alive_only is
\* false.
C23_ExpireOneWay ==
    [][/\ (/\ probe'.req.op = "expire"
           /\ probe'.outcome = "returned"
           /\ pc' = pc /\ today' = today)
            => \A x \in Called(user_relation') : x.time_horizon = today - 1
       /\ \A x \in user_relation :
            x.expired =>
                \E x2 \in user_relation' :
                    /\ x2.uuid = x.uuid
                    /\ ~is_alive(After, x2)
                    /\ x2 \in list_inbound(After, MkId(NoPrefix, x2.target), FALSE)
                    /\ x2 \notin list_inbound(After, MkId(NoPrefix, x2.target), TRUE)]_vars

\* C24: whatever link, edit_relation, update_time_horizon and expire were
\* applied, no user relation has a time_horizon before its created_at.
C24_HorizonNotBeforeCreation ==
    \A x \in user_relation : x.time_horizon >= x.created_at

\* The Artifact a commit_artifact of worker w is aimed at.
Aimed(w) == {e \in get_by_id(Store, cur[w].req.target) : e.type = "Artifact"}

Deltas(fs) == {f \in fs : f.type = "ArtifactDelta"}

\* The handler of worker w's commit_artifact ends in this step.
Commits(w) ==
    /\ pc[w] = "running"
    /\ pc'[w] # "running"
    /\ cur[w].req.op = "commit_artifact"

\* A commit_artifact that fails leaves the artifact and the deltas alone.
CommitRefused(w) ==
    /\ pc'[w] = "raised"
    /\ entities' = entities
    /\ Deltas(facts') = Deltas(facts)

\* C25: a commit_artifact whose based_on_hash is the artifact's current
\* hash succeeds and its new hash becomes the current one; with any other
\* based_on_hash it fails with lock_conflict, leaves the artifact's content
\* and hash as they were and records no ArtifactDelta.
C25_CommitLock ==
    [][\A w \in Workers :
        Commits(w) =>
            \A a \in Aimed(w) :
                IF a.hash = cur[w].req.based_on_hash
                THEN cur[w].req.ops = "ok" =>
                        /\ pc'[w] = "returned"
                        /\ \E a2 \in entities' :
                            /\ a2.uuid = a.uuid
                            /\ a2.hash # a.hash
                            /\ a2.previous_hash = a.hash
                        /\ Cardinality(Deltas(facts')) = Cardinality(Deltas(facts)) + 1
                ELSE /\ CommitRefused(w)
                     /\ \/ get_error_code(cur'[w].exc) = "lock_conflict"
                        \/ Status(cur'[w].exc) = 409]_vars

\* The connections of M the event for scope_uuid goes to.
Matching(M, scope_uuid) ==
    {c \in M.connections : scope_uuid = NoId \/ scope_uuid \in c.subscribed_scopes}

\* C26: publish with a type of EVENT_TYPES appends exactly one {type, data}
\* to the queue of every registered subscription that has the scope, or of
\* every one when the scope is None, appends nothing to any other, and
\* returns the number of queues it appended to; a subscription with no
\* scopes gets only the events with scope None; publish with any other
\* type fails and appends nothing.
C26_PublishFansOut ==
    [][probe'.req.op = "publish" =>
        LET t     == probe'.req.type
            scope == probe'.req.scope
            event == [type |-> t, data |-> DataFor(scope)]
        IN  IF t \in EVENT_TYPES
            THEN /\ probe'.outcome = "returned"
                 /\ probe'.count = Cardinality(Matching(sse_manager, scope))
                 /\ {c.client_id : c \in sse_manager'.connections}
                        = {c.client_id : c \in sse_manager.connections}
                 /\ \A c \in sse_manager.connections :
                        \A c2 \in ConnOf(sse_manager', c.client_id) :
                            /\ c2.subscribed_scopes = c.subscribed_scopes
                            /\ c \in Matching(sse_manager, scope)
                                    => c2.queue = Append(c.queue, event)
                            /\ c \notin Matching(sse_manager, scope)
                                    => c2.queue = c.queue
                            /\ (c.subscribed_scopes = {} /\ scope # NoId)
                                    => c2.queue = c.queue
            ELSE /\ probe'.outcome = "raised"
                 /\ sse_manager' = sse_manager]_vars

\* An event for one scope was published to two subscriptions, of which one
\* has the scope and the other has no scope at all.
C26_Witness ==
    /\ probe.req.op = "publish"
    /\ probe.req.scope # NoId
    /\ probe.count = 1
    /\ \E c \in sse_manager.connections, d \in sse_manager.connections :
        /\ probe.req.scope \in c.subscribed_scopes
        /\ Len(c.queue) > 0 /\ c.queue[Len(c.queue)].data = DataFor(probe.req.scope)
        /\ d.subscribed_scopes = {}
        /\ d.queue = <<>>

\* C27: every subscription's queue has a bound that its length never
\* exceeds; a publish that finds a queue full drops the event for that
\* subscription only, logs a warning, does not raise, and still delivers
\* to the other matching subscriptions.
C27_QueuesBounded ==
    [][/\ \A c \in sse_manager'.connections :
            QUEUE_MAXSIZE > 0 /\ Len(c.queue) <= QUEUE_MAXSIZE
       /\ (probe'.req.op = "publish" /\ probe'.req.type \in EVENT_TYPES) =>
            /\ probe'.outcome = "returned"
            /\ \A c \in Matching(sse_manager, probe'.req.scope) :
                \A c2 \in ConnOf(sse_manager', c.client_id) :
                    IF Full(c.queue)
                    THEN c2.queue = c.queue /\ sse_manager'.warnings > sse_manager.warnings
                    ELSE Len(c2.queue) = Len(c.queue) + 1]_vars

\* C28: when a client disconnects, its subscription is in the end removed
\* from the registry, once, wherever its stream stood; and no subscription
\* stays registered once its stream has ended.
C28_DisconnectUnregisters ==
    /\ \A id \in ClientIds :
        (\E st \in StreamOf(id) : ~st.connected) ~> (ConnOf(sse_manager, id) = {})
    /\ [](\A st \in streams :
            IF st.pc = "ended"
            THEN st.unregistered = 1 /\ ConnOf(sse_manager, st.client_id) = {}
            ELSE st.unregistered = 0 /\ ConnOf(sse_manager, st.client_id) # {})

\* Two streams have ended: one client left while its stream waited for an
\* event, the other while an event was being emitted.
C28_Witness ==
    \E st \in streams, st2 \in streams :
        /\ st.pc = "ended" /\ st.left_at = "waiting"
        /\ st2.pc = "ended" /\ st2.left_at \in {"yield_event", "yield_data"}
        /\ sse_manager.connections = {}

\* C29: an error of the event bus does not fail a handler: a
\* commit_artifact whose commit_delta succeeds returns its result and its
\* changes stay in the store, whether publishing the artifact_delta event
\* raised or not.
C29_BusErrorsSwallowed ==
    [][\A w \in Workers :
        Commits(w) =>
            \A a \in Aimed(w) :
                (a.hash = cur[w].req.based_on_hash /\ cur[w].req.ops = "ok") =>
                    /\ pc'[w] = "returned"
                    /\ \E a2 \in entities' :
                        a2.uuid = a.uuid /\ a2.previous_hash = a.hash
                    /\ Cardinality(Deltas(facts')) = Cardinality(Deltas(facts)) + 1]_vars

\* ------------------------------------------------------------------ search
\* The searches answered.
Searches == {d \in done : d.dispatched /\ d.req.op = "search" /\ d.status = 200}

\* C30: a search returns at most limit results whatever its target_type,
\* all included; the entity results come before the fact results, and the
\* count answered, the length of the results, is at most limit.
C30_SearchWithinLimit ==
    \A d \in Searches :
        /\ Len(d.results) <= d.req.limit
        /\ \A i, j \in DOMAIN d.results :
            (d.results[i].pfx = "core_" /\ d.results[j].pfx = "soil_") => i < j

\* ------------------------------------------------------ scoped acquisition
\* The invocations whose handler has ended, answered or not yet.
Ended ==
    {[inv |-> d.inv, req |-> d.req, hexc |-> d.hexc, writes |-> d.writes] : d \in done}
    \cup {[inv |-> cur[w].inv, req |-> cur[w].req, hexc |-> cur[w].hexc,
           writes |-> cur[w].writes] :
            w \in {v \in Workers : pc[v] \in {"returned", "raised"}}}

\* The rows an invocation's handler wrote in the way named.
Written(d, kind) == {x.uuid : x \in {y \in d.writes : y.kind = kind}}

Created(d) == Written(d, "entity") \cup Written(d, "fact")

\* The rows that exist and those marked superseded by a row of the set.
Rows == EntityIds \cup FactIds \cup {x.uuid : x \in relations}

SupersededBy(ids) ==
    {x.uuid : x \in {y \in entities \cup facts : y.superseded_by \in ids}}

\* C31: a handler that raises inside its with-block, after some of its
\* writes, leaves none of them in the store (no row it created, no row
\* marked superseded by one, no version it added); a handler that returns
\* leaves all of them; and no handle stays open once the block is left.
C31_CommitOrRollback ==
    /\ \A d \in Ended :
        IF d.hexc # NoExc
        THEN /\ (Created(d) \cup Written(d, "relation")) \cap Rows = {}
             /\ SupersededBy(Created(d)) = {}
        ELSE /\ (Created(d) \cup Written(d, "relation")) \subseteq Rows
             /\ Written(d, "supersede") # {} =>
                    SupersededBy(Created(d)) = Written(d, "supersede")
    /\ \A e \in entities :
        e.version = 1 + Cardinality({d \in Ended : /\ d.hexc = NoExc
                                                   /\ e.uuid \in Written(d, "update")})
    /\ \A w \in Workers : pc[w] # "held" => handles[w] = <<>>

\* C31 witness: an amend was refused after it had created the new fact and
\* marked the original, and a forget was answered.
C31_Witness ==
    /\ \E d \in done : /\ d.hexc # NoExc
                       /\ d.req.op = "amend"
                       /\ \E x \in d.writes : x.kind = "supersede"
    /\ \E d \in done : d.hexc = NoExc /\ d.req.op = "forget"

\* ---------------------------------------------------------------- registry
\* The calls of one kind that returned, by their place in the history.
Returns(op) == {i \in DOMAIN history : history[i].op = op}

Removals == {i \in Returns("unregister") : history[i].ret # None}

\* C32: the calls of the SSE manager exclude one another.  The client ids
\* handed out are distinct and grow in the order of registration, none is
\* handed out again; the registry holds as many connections as there were
\* registrations less the unregistrations that removed one; an unregister
\* of an id not registered returns None and changes nothing; and no two
\* threads are inside the manager at once.
C32_RegistryExclusive ==
    /\ \A i, j \in Returns("register") : i < j => history[i].ret < history[j].ret
    /\ \A i \in Returns("register") :
        /\ history[i].ret \notin history[i].before
        /\ history[i].after = history[i].before \cup {history[i].ret}
    /\ Cardinality(sse_manager.connections)
            = Cardinality(Returns("register")) - Cardinality(Removals)
    /\ \A i \in Returns("unregister") :
        IF history[i].id \in history[i].before
        THEN /\ history[i].ret = history[i].id
             /\ history[i].after = history[i].before \ {history[i].id}
        ELSE /\ history[i].ret = None
             /\ history[i].after = history[i].before
    /\ \A i \in Returns("get_connection_count") \cup Returns("publish") :
        history[i].after = history[i].before
    /\ \A i \in Returns("get_connection_count") :
        history[i].ret = Cardinality(history[i].before)
    /\ \A t, u \in Threads : threads[t].pc # "idle" /\ threads[u].pc # "idle" => t = u
    /\ \A t \in Threads : threads[t].pc # "idle" <=> lock = t

\* C32 witness: a client registered, was unregistered, and a second
\* unregister of its id returned None; the registry is empty again.
C32_Witness ==
    /\ \E i, j, k \in DOMAIN history :
        /\ i < j /\ j < k
        /\ history[i].op = "register"
        /\ history[j].op = "unregister" /\ history[j].ret = history[i].ret
        /\ history[k].op = "unregister" /\ history[k].id = history[i].ret
        /\ history[k].ret = None
    /\ sse_manager.connections = {}

\* ------------------------------------------------------------------ explore
\* C33: a handler that uses both stores acquires the Fact store before the
\* Entity store: no worker acquires the Fact store while it holds the
\* Entity store.
C33_FactBeforeEntity ==
    \A w \in Workers :
        \A i, j \in DOMAIN handles[w] :
            i < j => ~(handles[w][i].store = "core" /\ handles[w][j].store = "soil")

Explorations == {d \in done : d.req.op = "explore" /\ d.status = 200}

\* The relations an exploration may follow: alive, and of the kind asked.
Followed(r) ==
    {x \in user_relation :
        x.time_horizon >= today /\ (r.kind # NoKind => x.kind = r.kind)}

\* The nodes one hop from those of X in the request's direction.
Hop(r, X) ==
    {x.target : x \in {y \in Followed(r) :
                        r.direction \in {"outgoing", "both"} /\ y.source \in X}}
    \cup {x.source : x \in {y \in Followed(r) :
                        r.direction \in {"incoming", "both"} /\ y.target \in X}}

\* The nodes within k hops of the anchor.
RECURSIVE Within(_, _)
Within(r, k) ==
    IF k = 0 THEN {strip_prefix(r.anchor)}
    ELSE Within(r, k - 1) \cup Hop(r, Within(r, k - 1))

\* C34: explore respects its radius.  Every node returned is within radius
\* hops of the anchor, both endpoints of every edge returned are among the
\* nodes returned, every edge is an alive relation, no node and no edge is
\* returned twice, and count is at most limit.
C34_ExploreWithinRadius ==
    \A d \in Explorations :
        LET r == d.req
            nodes == {strip_prefix(n) : n \in d.rows}
            edges == d.results
        IN  /\ r.radius # NoRadius => nodes \subseteq Within(r, r.radius)
            /\ \A i \in DOMAIN edges :
                /\ strip_prefix(edges[i].source) \in nodes
                /\ strip_prefix(edges[i].target) \in nodes
                /\ \E x \in Followed(r) : x.uuid = strip_prefix(edges[i].uuid)
            /\ \A i, j \in DOMAIN edges : edges[i].uuid = edges[j].uuid => i = j
            /\ Cardinality(nodes) = Cardinality(d.rows)
            /\ Cardinality(d.rows) <= r.limit

\* ------------------------------------------------------------------- track
Trackings == {d \in done : d.req.op = "track" /\ d.status = 200}

\* C35: track terminates for every derivation graph, and with depth = d its
\* chain has the target at depth 0 and no node more than d hops from it.
\* Every track that was called is answered, after which the workers stay
\* idle; the chain of an answered one
\* starts at the target, follows derived_from, has at most d + 1 nodes when
\* d is given, its node at depth d is not expanded, and no entity is
\* expanded twice.
C35_TrackTerminates ==
    /\ [](\A d \in Trackings :
            LET chain == d.results
                limit == d.req.depth
            IN  /\ chain # <<>>
                /\ chain[1].id = add_core_prefix(strip_prefix(d.req.target))
                /\ \A i \in DOMAIN chain :
                    /\ limit # NoDepth => i - 1 <= limit
                    /\ (limit # NoDepth /\ i - 1 = limit) => ~chain[i].expanded
                    /\ i < Len(chain) =>
                        /\ chain[i].expanded
                        /\ \E e \in entities :
                            /\ e.uuid = strip_prefix(chain[i].id)
                            /\ e.derived_from = strip_prefix(chain[i + 1].id)
                /\ \A i, j \in DOMAIN chain :
                    (chain[i].expanded /\ chain[j].expanded /\ chain[i].id = chain[j].id)
                        => i = j)
    /\ <>[](\A w \in Workers : pc[w] = "idle")

\* C35 witness: a track with a depth limit was answered with a chain cut at
\* the limit, and one without limit ended on the entity it started from,
\* met again on a cycle.
C35_Witness ==
    /\ \E d \in Trackings :
        /\ d.req.depth # NoDepth
        /\ Len(d.results) = d.req.depth + 1
        /\ \E e \in entities : /\ e.uuid = strip_prefix(d.results[Len(d.results)].id)
                               /\ e.derived_from # NilUuid
    /\ \E d \in Trackings :
        /\ d.req.depth = NoDepth
        /\ Len(d.results) > 1
        /\ d.results[Len(d.results)].id = d.results[1].id

\* ------------------------------------------------------------ audit faults
\* The invocations answered whose handler returned.
HandlerSucceeded == {d \in done : d.dispatched /\ d.audited /\ d.hexc = NoExc}

\* The ActionResult facts that are the result of Action a.
Outcomes(a) ==
    {f \in facts : /\ f.type = "ActionResult"
                   /\ \E x \in ResultsOf(a) : x.source.raw = f.uuid}

\* C36: a failure of the audit write that follows a successful handler does
\* not change the outcome.  An invocation whose handler returned is answered
\* 200 with the handler's result, and no ActionResult with status error is
\* recorded for it.
C36_AuditFailureKeepsOutcome ==
    \A d \in HandlerSucceeded :
        /\ d.status = 200
        /\ d.raised = NoExc
        /\ \A f \in Outcomes(d.action) : f.status # "error"

\* ----------------------------------------------------------- subscriptions
\* The call that ended the subscription registered by call i: the first
\* unregister of its client id that removed it, or none yet.
Until(i) ==
    LET ends == {j \in Removals : j > i /\ history[j].id = history[i].ret}
    IN  IF ends = {} THEN Len(history) + 1
        ELSE CHOOSE j \in ends : \A k \in ends : j <= k

\* The publishes between the register i and its unregister that match the
\* scopes registered.
Window(i) ==
    {k \in Events : /\ i < k /\ k < Until(i)
                    /\ \/ history[k].scope = NoId
                       \/ history[k].scope \in history[i].scopes}

\* The publishes that put their event on the queue of the client of i.
Enqueued(i) == {k \in Events : history[i].ret \in history[k].to}

EndedThenPublished ==
    \E i \in Returns("register") :
        /\ Until(i) <= Len(history)
        /\ \E k \in Events : k > Until(i) /\ history[k].scope = NoId

\* ------------------------------------------------------- concurrent edits
\* The edits whose handler returned, answered or not yet.
EditsDone == {d \in Ended : d.req.op = "edit" /\ d.hexc = NoExc}

\* C39: concurrent edits of one entity are serialised without lost update.
\* Once the edits have returned, the entity's data holds what each of them
\* set and lacks what each of them unset, its version is higher by the
\* number of edits, and every version written names as previous_hash the
\* hash of the version it replaced, so that the chain does not fork.
C39_NoLostUpdate ==
    /\ [](\A e \in entities :
            /\ e.version = 1 + Cardinality({d \in EditsDone :
                                              strip_prefix(d.req.target) = e.uuid})
            /\ \A d \in EditsDone :
                strip_prefix(d.req.target) = e.uuid =>
                    /\ \A k \in DOMAIN d.req.set :
                        k \in DOMAIN e.data /\ e.data[k] = d.req.set[k]
                    /\ d.req.unset_fields \cap DOMAIN e.data = {})
    /\ [][\A e \in entities : \A e2 \in entities' :
            (e2.uuid = e.uuid /\ e2 # e) =>
                /\ e2.version = e.version + 1
                /\ e2.previous_hash = e.hash
                /\ e2.hash # e.hash]_vars

\* ----------------------------------------------------- concurrent commits
\* The commit_artifact invocations whose handler has ended, and those of
\* them whose transaction was committed.
CommitsEnded == {d \in Ended : d.req.op = "commit_artifact"}

CommitsKept == {d \in CommitsEnded : d.hexc = NoExc}

\* C38: of two concurrent commit_artifact with the artifact's current hash
\* as based_on_hash at most one succeeds and the other fails with
\* lock_conflict.  The artifact is one version and one hash further for
\* the commit that succeeded, one ArtifactDelta is recorded for it, and
\* none for a commit that failed.
C38_OneCommitWins ==
    /\ Cardinality(CommitsKept) <= 1
    /\ \A e \in entities :
        /\ e.version = 1 + Cardinality(CommitsKept)
        /\ e.hash = Cardinality(CommitsKept)
    /\ Cardinality(Deltas(facts)) = Cardinality(CommitsKept)
    /\ \A d \in done :
        (d.req.op = "commit_artifact" /\ d.cause = "ConflictError") =>
            \/ get_error_code(d.raised) = "lock_conflict"
            \/ d.status = 409

\* The events on the queue of a subscription.
QueuedEvents(c) == {c.queue[n] : n \in DOMAIN c.queue}

\* C40: an artifact_delta event reaches subscribers only for a delta whose
\* store changes are committed.  Every event queued names a hash the
\* artifact has or had, as a subscriber reading the artifact finds it, and
\* a subscription holds as many events as deltas were committed.
C40_EventAfterCommit ==
    \A c \in sse_manager.connections :
        /\ \A ev \in QueuedEvents(c) :
            \E e \in entities :
                /\ add_core_prefix(e.uuid) = ev.data.artifact_uuid
                /\ e.hash >= ev.data.commit_hash
        /\ Len(c.queue) = Cardinality(Deltas(facts))

====
